---- MODULE Spec2Model ----
(***************************************************************************)
(* QuestMaster game engine (backend/app/services/game_service.py) and the  *)
(* internal reachability check (backend/app/services/validation_service.py)*)
(*                                                                         *)
(* A literal is the sequence of its whitespace separated tokens, e.g.      *)
(* <<"at", "?from">>; a fact is a literal without variable tokens.  The    *)
(* Python strings "at ?from" / "at cell" and these token sequences are in  *)
(* one-to-one correspondence (tokens contain no blanks).  A binding is a   *)
(* function from variable names (without the "?") to object names.         *)
(***************************************************************************)
EXTENDS Integers, Sequences, FiniteSets, TLC

VARIABLES
    prob,            \* which (domain, problem) pair the parser was given
    current_facts,   \* GameState.current_facts
    step_count,      \* GameState.step_count
    action_history,  \* GameState.action_history
    visited_states,  \* GameState.visited_states
    result,          \* what the last engine operation returned (or raised)
    bfs_pc,          \* position of _check_reachability_internal
    queue,           \* its local `queue`
    visited,         \* its local `visited`
    reach_result,    \* its return value
    errors,          \* the `errors` list of PDDLValidationService.validate
    active,          \* whether _active_engines holds the session's engine
    session,         \* the GameSession row (current_state, is_completed, steps_taken)
    response,        \* the last HTTP response of routes/game_routes.py
    pc,              \* per thread: where its execute_action invocation stands
    call,            \* per thread: the action_name and bindings it was given
    discipline,      \* whether the caller serializes invocations on the engine
    applied,         \* the last apply_action: its arguments and the facts it found
    story,           \* the Story row (PDDL texts, is_validated, status, refinements)
    certified        \* the texts for which validate has returned valid so far

vars == <<prob, current_facts, step_count, action_history, visited_states,
          result, bfs_pc, queue, visited, reach_result, errors,
          active, session, response, pc, call, discipline, applied,
          story, certified>>

engine_vars == <<current_facts, step_count, action_history, visited_states, result>>
bfs_vars == <<bfs_pc, queue, visited, reach_result, errors>>
route_vars == <<active, session, response>>
thread_vars == <<pc, call, discipline, applied>>
story_vars == <<story, certified>>

(***************************************************************************)
(* Bounds of the model.                                                    *)
(***************************************************************************)
MaxSteps == 5       \* successful execute_action calls per engine
MaxLimit == 2       \* largest max_actions value a caller passes
NoLimit == 0 - 1    \* max_actions = None

\* the search bounds fixed in _check_reachability_internal
max_depth == 50
max_states == 10000

(***************************************************************************)
(* Parsed domains and problems (the fields of PDDLParser after _parse).    *)
(***************************************************************************)
Param(n, t) == [name |-> n, type |-> t]

Schema(n, ps, pos, neg, add, del) ==
    [name |-> n, parameters |-> ps,
     precondition |-> [positive |-> pos, negative |-> neg],
     effect |-> [add |-> add, delete |-> del]]

Parsed(as, os, init, gpos, gneg) ==
    [actions |-> as, objects |-> os, initial_state |-> init,
     goal |-> [positive |-> gpos, negative |-> gneg]]

\* tests/test_e2e.py ESCAPE_ROOM_DOMAIN / ESCAPE_ROOM_PROBLEM as parsed
EscapeRoom ==
    Parsed(
      << Schema("move", <<Param("from", "room"), Param("to", "room")>>,
                <<  <<"at", "?from">>, <<"door-between", "?from", "?to">> >>,
                <<  <<"door-locked", "?from", "?to">> >>,
                <<  <<"at", "?to">> >>,
                <<  <<"at", "?from">> >>),
         Schema("pickup", <<Param("i", "item"), Param("r", "room")>>,
                <<  <<"at", "?r">>, <<"at-item", "?i", "?r">> >>,
                << >>,
                <<  <<"has", "?i">> >>,
                <<  <<"at-item", "?i", "?r">> >>),
         Schema("unlock-door",
                <<Param("i", "item"), Param("r1", "room"), Param("r2", "room")>>,
                <<  <<"has", "?i">>, <<"unlocks", "?i", "?r1", "?r2">>,
                    <<"door-locked", "?r1", "?r2">> >>,
                << >>,
                << >>,
                <<  <<"door-locked", "?r1", "?r2">>, <<"door-locked", "?r2", "?r1">> >>),
         Schema("escape", <<Param("r", "room")>>,
                <<  <<"at", "?r">> >>, << >>,
                <<  <<"escaped">> >>, << >>) >>,
      << Param("cell", "room"), Param("corridor", "room"), Param("exit", "room"),
         Param("key", "item") >>,
      { <<"at", "cell">>, <<"at-item", "key", "cell">>,
        <<"door-between", "cell", "corridor">>, <<"door-between", "corridor", "cell">>,
        <<"door-between", "corridor", "exit">>, <<"door-between", "exit", "corridor">>,
        <<"door-locked", "cell", "corridor">>, <<"door-locked", "corridor", "cell">>,
        <<"unlocks", "key", "cell", "corridor">> },
      <<  <<"escaped">> >>, << >>)

\* tests/test_game_service.py SAMPLE_DOMAIN / SAMPLE_PROBLEM as parsed
SimpleAdventure ==
    Parsed(
      << Schema("move", <<Param("from", "location"), Param("to", "location")>>,
                <<  <<"at", "?from">>, <<"connected", "?from", "?to">> >>, << >>,
                <<  <<"at", "?to">> >>, <<  <<"at", "?from">> >>),
         Schema("pickup", <<Param("i", "item"), Param("l", "location")>>,
                <<  <<"at", "?l">>, <<"at-item", "?i", "?l">> >>, << >>,
                <<  <<"has", "?i">> >>, <<  <<"at-item", "?i", "?l">> >>) >>,
      << Param("room1", "location"), Param("room2", "location"),
         Param("key", "item"), Param("sword", "item") >>,
      { <<"at", "room1">>, <<"at-item", "key", "room1">>, <<"at-item", "sword", "room2">>,
        <<"connected", "room1", "room2">>, <<"connected", "room2", "room1">> },
      <<  <<"has", "key">>, <<"has", "sword">> >>, << >>)

\* A one-way map: the pit has no way out (dead end), the top is the goal.
OneWay ==
    Parsed(
      << Schema("go", <<Param("from", "place"), Param("to", "place")>>,
                <<  <<"at", "?from">>, <<"path", "?from", "?to">> >>, << >>,
                <<  <<"at", "?to">> >>, <<  <<"at", "?from">> >>) >>,
      << Param("start", "place"), Param("mid", "place"), Param("pit", "place"),
         Param("top", "place") >>,
      { <<"at", "start">>, <<"path", "start", "mid">>, <<"path", "start", "pit">>,
        <<"path", "mid", "top">> },
      <<  <<"at", "top">> >>, << >>)

\* The one-way map with the pit declared before the middle:
\*   (:objects start pit mid top - place)
Pitfall ==
    [OneWay EXCEPT !.objects = << Param("start", "place"), Param("pit", "place"),
                                  Param("mid", "place"), Param("top", "place") >>]

\* _parse_parameters on a :parameters text, given as the declared variables
\* in order, each with the words its name is hyphenated from and its type.
\* The pattern \?(\w+)(?:\s*-\s*(\w+))? stops the name at the first hyphen
\* and takes the word behind that hyphen for the type; what follows has no
\* question mark and yields no further match.
parse_parameters(declared) ==
    [i \in 1..Len(declared) |->
        Param(declared[i].words[1],
              IF Len(declared[i].words) > 1 THEN declared[i].words[2]
              ELSE declared[i].type)]

\* The text of a condition or an effect is given as its depth-one groups
\* in order (what is left when a leading "(and" and its closing
\* parenthesis are cut away); a group is a literal, or the keyword not in
\* front of a parenthesised literal.
Group(negated, literal) == [negated |-> negated, literal |-> literal]

\* the predicate names of the texts below that begin with the letters n-o-t
NotNames == {"notified"}

\* pred_str.startswith('not') on the text between the parentheses of a group
starts_with_not(group) == group.negated \/ group.literal[1] \in NotNames

\* re.search(r'not\s*\(\s*([^)]+)\)', pred_str) finds something: the
\* letters not are followed by an opening parenthesis only in a negation
neg_match(group) == group.negated

group_literals(groups) == [i \in 1..Len(groups) |-> groups[i].literal]

\* _parse_condition: a group whose text starts with not goes to the
\* negative list when the expression matches and nowhere when it does not;
\* every other group goes to the positive list
parse_condition(groups) ==
    [positive |-> group_literals(SelectSeq(groups, LAMBDA g : ~starts_with_not(g))),
     negative |-> group_literals(SelectSeq(groups,
                      LAMBDA g : starts_with_not(g) /\ neg_match(g)))]

\* _parse_effect: the same scan, filling the add and the delete list
parse_effect(groups) ==
    [add |-> group_literals(SelectSeq(groups, LAMBDA g : ~starts_with_not(g))),
     delete |-> group_literals(SelectSeq(groups,
                    LAMBDA g : starts_with_not(g) /\ neg_match(g)))]

\* the text of an (:action ...) block
ActionText(n, declared, pre, eff) ==
    [name |-> n, declared |-> declared, precondition |-> pre, effect |-> eff]

\* the entry _parse_domain stores for an action block
parse_action(text) ==
    [name |-> text.name,
     parameters |-> parse_parameters(text.declared),
     precondition |-> parse_condition(text.precondition),
     effect |-> parse_effect(text.effect)]

parse_actions(texts) == [i \in 1..Len(texts) |-> parse_action(texts[i])]

\* Two rooms and an action whose second variable is ?r-west:
\*   (:action go :parameters (?r - room ?r-west - room)
\*     :precondition (and (at ?r) (link ?r ?r-west))
\*     :effect (and (not (at ?r)) (at ?r-west)))
\*   (:objects hall garden - room) (:init (at hall) (link hall garden))
\*   (:goal (at garden))
WestWingText ==
    << ActionText("go",
                  << [words |-> <<"r">>, type |-> "room"],
                     [words |-> <<"r", "west">>, type |-> "room"] >>,
                  << Group(FALSE, <<"at", "?r">>),
                     Group(FALSE, <<"link", "?r", "?r-west">>) >>,
                  << Group(TRUE, <<"at", "?r">>),
                     Group(FALSE, <<"at", "?r-west">>) >>) >>

WestWing ==
    Parsed(parse_actions(WestWingText),
      << Param("hall", "room"), Param("garden", "room") >>,
      { <<"at", "hall">>, <<"link", "hall", "garden">> },
      <<  <<"at", "garden">> >>, << >>)

\* A room that may be entered once its occupant has been notified:
\*   (:action notify :parameters (?r - room)
\*     :precondition (at-door ?r) :effect (notified ?r))
\*   (:action enter :parameters (?r - room)
\*     :precondition (and (at-door ?r) (notified ?r))
\*     :effect (and (inside ?r) (not (at-door ?r))))
\*   (:objects lab - room) (:init (at-door lab)) (:goal (inside lab))
BulletinText ==
    << ActionText("notify", << [words |-> <<"r">>, type |-> "room"] >>,
                  << Group(FALSE, <<"at-door", "?r">>) >>,
                  << Group(FALSE, <<"notified", "?r">>) >>),
       ActionText("enter", << [words |-> <<"r">>, type |-> "room"] >>,
                  << Group(FALSE, <<"at-door", "?r">>),
                     Group(FALSE, <<"notified", "?r">>) >>,
                  << Group(FALSE, <<"inside", "?r">>),
                     Group(TRUE, <<"at-door", "?r">>) >>) >>

Bulletin ==
    Parsed(parse_actions(BulletinText),
      << Param("lab", "room") >>,
      { <<"at-door", "lab">> },
      <<  <<"inside", "lab">> >>, << >>)

\* A vault reached on foot in two steps; jump is declared for vaults only:
\*   (:action walk :parameters (?r - room)
\*     :precondition (open ?r) :effect (near ?r))
\*   (:action enter :parameters (?r - room)
\*     :precondition (near ?r) :effect (inside ?r))
\*   (:action jump :parameters (?v - vault)
\*     :precondition (open ?v) :effect (inside ?v))
\*   (:objects lobby - room safe - vault) (:init (open lobby))
\*   (:goal (inside lobby))
VaultText ==
    << ActionText("walk", << [words |-> <<"r">>, type |-> "room"] >>,
                  << Group(FALSE, <<"open", "?r">>) >>,
                  << Group(FALSE, <<"near", "?r">>) >>),
       ActionText("enter", << [words |-> <<"r">>, type |-> "room"] >>,
                  << Group(FALSE, <<"near", "?r">>) >>,
                  << Group(FALSE, <<"inside", "?r">>) >>),
       ActionText("jump", << [words |-> <<"v">>, type |-> "vault"] >>,
                  << Group(FALSE, <<"open", "?v">>) >>,
                  << Group(FALSE, <<"inside", "?v">>) >>) >>

Vault ==
    Parsed(parse_actions(VaultText),
      << Param("lobby", "room"), Param("safe", "vault") >>,
      { <<"open", "lobby">> },
      <<  <<"inside", "lobby">> >>, << >>)

\* the action blocks of the domains given as text
ActionTexts(family) ==
    CASE family = "west-wing" -> WestWingText
      [] family = "bulletin" -> BulletinText
      [] family = "vault" -> VaultText
      [] OTHER -> << >>

(***************************************************************************)
(* A family of small switch domains over the objects a, b: every           *)
(* sub-sequence of SwitchLibrary, with each of SwitchInits and SwitchGoals.*)
(* It covers untyped parameters, a parameter type without objects, an      *)
(* action without parameters, negative literals and unreachable goals.     *)
(***************************************************************************)
SwitchLibrary ==
    << Schema("set", <<Param("x", "lamp")>>,
              << >>, <<  <<"on", "?x">> >>,
              <<  <<"on", "?x">> >>, << >>),
       Schema("swap", <<Param("x", "object"), Param("y", "lamp")>>,
              <<  <<"on", "?x">> >>, <<  <<"on", "?y">> >>,
              <<  <<"on", "?y">> >>, <<  <<"on", "?x">> >>),
       Schema("burn", <<Param("x", "fuel")>>,
              <<  <<"on", "?x">> >>, <<  <<"burnt">> >>,
              <<  <<"burnt">>, <<"on", "?x">> >>, <<  <<"on", "?x">> >>),
       Schema("finish", << >>,
              <<  <<"on", "a">>, <<"on", "b">> >>, << >>,
              <<  <<"done">> >>, << >>) >>

SwitchObjects == << Param("a", "lamp"), Param("b", "lamp") >>

SwitchInits == { {}, { <<"on", "a">> } }

SwitchGoals ==
    << [positive |-> <<  <<"done">> >>, negative |-> << >>],
       [positive |-> <<  <<"on", "b">> >>, negative |-> <<  <<"on", "a">> >>],
       [positive |-> <<  <<"burnt">> >>, negative |-> <<  <<"on", "a">>, <<"on", "b">> >>] >>

SwitchNames == {"set", "swap", "burn", "finish"}

SwitchProblem(keep, init, goal) ==
    [actions |-> SelectSeq(SwitchLibrary, LAMBDA s : s.name \in keep),
     objects |-> SwitchObjects, initial_state |-> init, goal |-> SwitchGoals[goal]]

\* A corridor of max_depth + 2 nodes walked one node per step: the node
\* number g is first reached after exactly g steps.
NodeName(i) == "n" \o ToString(i)

Chain(g) ==
    Parsed(
      << Schema("step", <<Param("a", "node"), Param("b", "node")>>,
                <<  <<"at", "?a">>, <<"next", "?a", "?b">> >>, << >>,
                <<  <<"at", "?b">> >>, <<  <<"at", "?a">> >>) >>,
      [i \in 1..(max_depth + 2) |-> Param(NodeName(i - 1), "node")],
      { <<"at", NodeName(0)>> } \cup
          { <<"next", NodeName(i), NodeName(i + 1)>> : i \in 0..max_depth },
      <<  <<"at", NodeName(g)>> >>, << >>)

\* One action with four parameters over FanOutWidth objects: the initial
\* state has Width^4 successors, which with it are more than max_states
\* states; they have no successors and the goal fact is never added.
FanOutWidth == 10

FanOut ==
    Parsed(
      << Schema("mark", <<Param("a", "thing"), Param("b", "thing"),
                          Param("c", "thing"), Param("d", "thing")>>,
                <<  <<"fresh">> >>, << >>,
                <<  <<"m", "?a", "?b", "?c", "?d">> >>, <<  <<"fresh">> >>) >>,
      [i \in 1..FanOutWidth |-> Param("o" \o ToString(i - 1), "thing")],
      { <<"fresh">> },
      <<  <<"won">> >>, << >>)

\* A pair is named by its family and, for the switch family, by the kept
\* schemas, the initial facts and the index of the goal; `missing` names
\* what has been cut out of the problem text.
Fixed(family) == [family |-> family, keep |-> {}, init |-> {}, goal |-> 0, missing |-> {}]

Switch(keep, init, goal) ==
    [family |-> "switch", keep |-> keep, init |-> init, goal |-> goal, missing |-> {}]

\* the pair k with parts of its problem text removed: the (:objects ...),
\* (:init ...) or (:goal ...) section, or the closing parenthesis of the
\* text ("close")
Without(k, parts) == [k EXCEPT !.missing = parts]

\* the parse of the complete texts of the pair k
complete(k) ==
    CASE k.family = "escape-room" -> EscapeRoom
      [] k.family = "simple-adventure" -> SimpleAdventure
      [] k.family = "one-way" -> OneWay
      [] k.family = "pitfall" -> Pitfall
      [] k.family = "chain" -> Chain(k.goal)
      [] k.family = "fan-out" -> FanOut
      [] k.family = "west-wing" -> WestWing
      [] k.family = "bulletin" -> Bulletin
      [] k.family = "vault" -> Vault
      [] OTHER -> SwitchProblem(k.keep, k.init, k.goal)

\* _parse_problem on a text with parts missing: a section whose regular
\* expression finds nothing leaves the field as __init__ set it.  The
\* :init expression ends in `\(:goal`, so without the goal section it
\* finds nothing either; the :goal expression must reach the end of the
\* text through two closing parentheses, and what it captures from a text
\* without the last one has no balanced literal.
parse_problem(full, missing) ==
    [actions |-> full.actions,
     objects |-> IF "objects" \in missing THEN << >> ELSE full.objects,
     initial_state |-> IF "init" \in missing \/ "goal" \in missing
                       THEN {} ELSE full.initial_state,
     goal |-> IF "goal" \in missing \/ "close" \in missing
              THEN [positive |-> << >>, negative |-> << >>] ELSE full.goal]

\* the parser object built from the pair k
parser(k) == parse_problem(complete(k), k.missing)

FixedProblems == { Fixed("escape-room"), Fixed("simple-adventure"), Fixed("one-way") }

\* domains that use PDDL names the fixed ones do not
NamingProblems == { Fixed("west-wing"), Fixed("bulletin") }

\* tests/test_game_service.py SAMPLE_PROBLEM with one part removed
CutProblems ==
    { Without(Fixed("simple-adventure"), {part}) : part \in {"objects", "init", "goal", "close"} }

\* the pairs the engine is run on
EngineProblems ==
    FixedProblems \cup { Switch({"set", "burn", "finish"}, {}, 1) } \cup CutProblems
        \cup NamingProblems

\* the pairs the reachability check is run on
ReachProblems ==
    FixedProblems \cup
    { [family |-> "chain", keep |-> {}, init |-> {}, goal |-> g, missing |-> {}] :
        g \in {max_depth, max_depth + 1} } \cup
    { Fixed("fan-out"), Fixed("vault"), Fixed("pitfall") } \cup
    { Switch(keep, init, goal) :
        keep \in SUBSET SwitchNames, init \in SwitchInits, goal \in 1..Len(SwitchGoals) }

(***************************************************************************)
(* StateEvaluator                                                          *)
(***************************************************************************)
EmptyBinding == [v \in {} |-> ""]

\* re.sub(r'\?' + var + r'\b', obj, grounded) for every (var, obj) of the
\* binding: a token that is the variable "?var" is replaced by obj.
\* the variable tokens with a hyphen in the domains above, and the words
\* that follow the hyphen in them
HyphenTokens == {"?r-west"}
HyphenTails == {"west"}

\* re.sub(r'\?' + var + r'\b', obj, token): "?var" is replaced where the
\* token ends behind it or goes on with a non-word character, which in a
\* variable token is a hyphen
sub_variable(token, var, obj) ==
    IF token = "?" \o var THEN obj
    ELSE IF token \notin HyphenTokens THEN token
    ELSE IF \E tail \in HyphenTails : token = "?" \o var \o "-" \o tail
         THEN obj \o "-" \o (CHOOSE tail \in HyphenTails : token = "?" \o var \o "-" \o tail)
         ELSE token

\* the loop over bindings.items(): the variable names of a binding are words,
\* so at most one of them is found in a token, and object names have no "?"
ground_predicate(predicate, bindings) ==
    [i \in 1..Len(predicate) |->
        LET hit == {v \in DOMAIN bindings :
                       sub_variable(predicate[i], v, bindings[v]) # predicate[i]}
        IN  IF hit # {}
            THEN LET v == CHOOSE w \in hit : TRUE
                 IN  sub_variable(predicate[i], v, bindings[v])
            ELSE predicate[i]]

\* evaluate_precondition without its second loop
evaluate_precondition_positive_only(precondition, current_state, bindings) ==
    \A i \in 1..Len(precondition.positive) :
        ground_predicate(precondition.positive[i], bindings) \in current_state

evaluate_precondition(precondition, current_state, bindings) ==
    /\ \A i \in 1..Len(precondition.positive) :
          ground_predicate(precondition.positive[i], bindings) \in current_state
    /\ \A i \in 1..Len(precondition.negative) :
          ground_predicate(precondition.negative[i], bindings) \notin current_state

(***************************************************************************)
(* ActionCalculator                                                        *)
(***************************************************************************)
action_def(p, action_name) ==
    LET hit == {i \in 1..Len(p.actions) : p.actions[i].name = action_name}
    IN  p.actions[CHOOSE i \in hit : TRUE]

ActionNames(p) == {p.actions[i].name : i \in 1..Len(p.actions)}

\* the `objects` list computed for one parameter, with its fallback
candidate_objects(p, param_type) ==
    LET typed == SelectSeq(p.objects,
                           LAMBDA o : o.type = param_type \/ param_type = "object")
        objs  == IF typed = << >> THEN p.objects ELSE typed
    IN  [i \in 1..Len(objs) |-> objs[i].name]

\* the inner double loop: every binding extended by every object
extend_bindings(bindings_list, param_name, objects) ==
    [k \in 1..(Len(bindings_list) * Len(objects)) |->
        LET binding == bindings_list[((k - 1) \div Len(objects)) + 1]
            obj     == objects[((k - 1) % Len(objects)) + 1]
        IN  [v \in (DOMAIN binding) \cup {param_name} |->
                IF v = param_name THEN obj ELSE binding[v]]]

RECURSIVE bindings_upto(_, _, _)
bindings_upto(p, parameters, k) ==
    IF k = 0 THEN << EmptyBinding >>
    ELSE extend_bindings(bindings_upto(p, parameters, k - 1),
                         parameters[k].name,
                         candidate_objects(p, parameters[k].type))

generate_bindings(p, parameters) == bindings_upto(p, parameters, Len(parameters))

\* applicable_of without the precondition test
applicable_of_unfiltered(p, def, current_state) ==
    LET keep == generate_bindings(p, def.parameters)
    IN  [i \in 1..Len(keep) |-> [action |-> def.name, bindings |-> keep[i]]]

\* the applicable instances of one schema, in binding order
applicable_of(p, def, current_state) ==
    LET keep == SelectSeq(generate_bindings(p, def.parameters),
                          LAMBDA b : evaluate_precondition(def.precondition, current_state, b))
    IN  [i \in 1..Len(keep) |-> [action |-> def.name, bindings |-> keep[i]]]

RECURSIVE applicable_upto(_, _, _)
applicable_upto(p, current_state, k) ==
    IF k = 0 THEN << >>
    ELSE applicable_upto(p, current_state, k - 1)
         \o applicable_of(p, p.actions[k], current_state)

get_applicable_actions(p, current_state) ==
    applicable_upto(p, current_state, Len(p.actions))

RECURSIVE sim_add(_, _, _, _)
sim_add(state, preds, bindings, k) ==
    IF k = 0 THEN state
    ELSE sim_add(state, preds, bindings, k - 1) \cup {ground_predicate(preds[k], bindings)}

RECURSIVE sim_discard(_, _, _, _)
sim_discard(state, preds, bindings, k) ==
    IF k = 0 THEN state
    ELSE sim_discard(state, preds, bindings, k - 1) \ {ground_predicate(preds[k], bindings)}

\* _simulate_action_effect without its second loop
simulate_action_effect_adds_only(def, bindings, current_state) ==
    sim_add(current_state, def.effect.add, bindings, Len(def.effect.add))

\* _simulate_action_effect running the delete loop before the add loop
simulate_action_effect_deletes_first(def, bindings, current_state) ==
    LET removed == sim_discard(current_state, def.effect.delete, bindings,
                               Len(def.effect.delete))
    IN  sim_add(removed, def.effect.add, bindings, Len(def.effect.add))

simulate_action_effect(def, bindings, current_state) ==
    LET added == sim_add(current_state, def.effect.add, bindings, Len(def.effect.add))
    IN  sim_discard(added, def.effect.delete, bindings, Len(def.effect.delete))

\* _simulate_action_effect working on the caller's set itself
simulate_leaves_in_place(def, bindings, current_state) ==
    simulate_action_effect(def, bindings, current_state)

\* what the set passed as current_state holds once _simulate_action_effect
\* has returned: the loops work on new_state = set(current_state), a new set
simulate_leaves(def, bindings, current_state) ==
    current_state

(***************************************************************************)
(* GameState                                                               *)
(***************************************************************************)
\* the two loops of apply_action over current_facts
RECURSIVE facts_after(_, _, _, _)
facts_after(facts, effects, bindings, k) ==
    IF k = 0 THEN facts
    ELSE LET before == facts_after(facts, effects, bindings, k - 1)
             n      == Len(effects.add)
         IN  IF k <= n
             THEN before \cup {ground_predicate(effects.add[k], bindings)}
             ELSE before \ {ground_predicate(effects.delete[k - n], bindings)}

\* apply_action leaving its second loop one literal early
apply_action_facts_partial(facts, def, bindings) ==
    facts_after(facts, def.effect, bindings,
                IF Len(def.effect.delete) > 0
                THEN Len(def.effect.add) + Len(def.effect.delete) - 1
                ELSE Len(def.effect.add))

\* apply_action without its second loop (nothing is ever discarded)
apply_action_facts_adds_only(facts, def, bindings) ==
    facts_after(facts, def.effect, bindings, Len(def.effect.add))

apply_action_facts(facts, def, bindings) ==
    facts_after(facts, def.effect, bindings, Len(def.effect.add) + Len(def.effect.delete))

\* apply_action recording the history entry before incrementing step_count
apply_action_entry_stale(steps, def, bindings) ==
    [step |-> steps, action |-> def.name, bindings |-> bindings]

apply_action_entry(steps, def, bindings) ==
    [step |-> steps + 1, action |-> def.name, bindings |-> bindings]

is_goal_reached(goal, facts) ==
    /\ \A i \in 1..Len(goal.positive) : goal.positive[i] \in facts
    /\ \A i \in 1..Len(goal.negative) : goal.negative[i] \notin facts

\* list(a_set): the elements in some order, each once ("up"), or in the
\* opposite order ("down"); Python does not fix the order
RECURSIVE list_up(_)
list_up(S) ==
    IF S = {} THEN << >>
    ELSE LET x == CHOOSE y \in S : TRUE
         IN  << x >> \o list_up(S \ {x})

as_list(S, order) ==
    LET up == list_up(S)
    IN  IF order = "up" THEN up ELSE [i \in 1..Len(up) |-> up[Len(up) + 1 - i]]

Orders == {"up", "down"}

\* set(a_list) / frozenset(a_list)
set(xs) == {xs[i] : i \in 1..Len(xs)}

\* to_dict without the visited_states entry
to_dict_without_visited(facts, steps, history, seen, order) ==
    [facts |-> as_list(facts, order),
     step_count |-> steps,
     action_history |-> history]

to_dict(facts, steps, history, seen, order) ==
    [facts |-> as_list(facts, order),
     step_count |-> steps,
     action_history |-> history,
     visited_states |-> LET states == as_list(seen, order)
                        IN  [i \in 1..Len(states) |-> as_list(states[i], order)]]

\* data.get(key, default)
get(data, key, default) == IF key \in DOMAIN data THEN data[key] ELSE default

\* from_dict keeping an empty visited set when none was stored
from_dict_no_fallback(data) ==
    LET raw_visited == get(data, "visited_states", << >>)
    IN  [current_facts |-> set(get(data, "facts", << >>)),
         step_count |-> get(data, "step_count", 0),
         action_history |-> get(data, "action_history", << >>),
         visited_states |-> {set(raw_visited[i]) : i \in 1..Len(raw_visited)}]

\* from_dict(data, goal): the fields of the GameState it returns (the goal
\* is the parser's and is not part of the stored data)
from_dict(data) ==
    LET facts       == set(get(data, "facts", << >>))
        raw_visited == get(data, "visited_states", << >>)
    IN  [current_facts |-> facts,
         step_count |-> get(data, "step_count", 0),
         action_history |-> get(data, "action_history", << >>),
         visited_states |-> IF raw_visited # << >>
                            THEN {set(raw_visited[i]) : i \in 1..Len(raw_visited)}
                            ELSE {facts}]

(***************************************************************************)
(* GameEngine                                                              *)
(***************************************************************************)
\* get_available_actions comparing the simulated state with the current
\* facts instead of looking it up in visited_states
get_available_actions_current_only(p, facts, seen, max_actions) ==
    LET applicable == get_applicable_actions(p, facts)
        formatted  == [i \in 1..Len(applicable) |->
                         [action |-> applicable[i].action,
                          bindings |-> applicable[i].bindings,
                          revisits_state |->
                              simulate_action_effect(action_def(p, applicable[i].action),
                                                     applicable[i].bindings, facts) = facts]]
        new_actions     == SelectSeq(formatted, LAMBDA a : ~a.revisits_state)
        revisit_actions == SelectSeq(formatted, LAMBDA a : a.revisits_state)
        all_actions     == new_actions \o revisit_actions
    IN  IF max_actions # NoLimit /\ Len(all_actions) > max_actions
        THEN SubSeq(all_actions, 1, max_actions)
        ELSE all_actions

\* get_available_actions concatenating the revisiting actions first
get_available_actions_revisits_first(p, facts, seen, max_actions) ==
    LET applicable == get_applicable_actions(p, facts)
        formatted  == [i \in 1..Len(applicable) |->
                         [action |-> applicable[i].action,
                          bindings |-> applicable[i].bindings,
                          revisits_state |->
                              simulate_action_effect(action_def(p, applicable[i].action),
                                                     applicable[i].bindings, facts) \in seen]]
        new_actions     == SelectSeq(formatted, LAMBDA a : ~a.revisits_state)
        revisit_actions == SelectSeq(formatted, LAMBDA a : a.revisits_state)
        all_actions     == revisit_actions \o new_actions
    IN  IF max_actions # NoLimit /\ Len(all_actions) > max_actions
        THEN SubSeq(all_actions, 1, max_actions)
        ELSE all_actions

get_available_actions(p, facts, seen, max_actions) ==
    LET applicable == get_applicable_actions(p, facts)
        formatted  == [i \in 1..Len(applicable) |->
                         [action |-> applicable[i].action,
                          bindings |-> applicable[i].bindings,
                          revisits_state |->
                              simulate_action_effect(action_def(p, applicable[i].action),
                                                     applicable[i].bindings, facts) \in seen]]
        new_actions     == SelectSeq(formatted, LAMBDA a : ~a.revisits_state)
        revisit_actions == SelectSeq(formatted, LAMBDA a : a.revisits_state)
        all_actions     == new_actions \o revisit_actions
    IN  IF max_actions # NoLimit /\ Len(all_actions) > max_actions
        THEN SubSeq(all_actions, 1, max_actions)
        ELSE all_actions

\* game_state.current_facts after the first k passes of the loop of
\* get_available_actions, each of which hands it to _simulate_action_effect
RECURSIVE listing_leaves(_, _, _, _)
listing_leaves(p, applicable, facts, k) ==
    IF k = 0 THEN facts
    ELSE simulate_leaves(action_def(p, applicable[k].action), applicable[k].bindings,
                         listing_leaves(p, applicable, facts, k - 1))

\* game_state.current_facts after get_available_actions has returned
get_available_actions_leaves(p, facts) ==
    LET applicable == get_applicable_actions(p, facts)
    IN  listing_leaves(p, applicable, facts, Len(applicable))

\* what an operation hands back: a result dictionary or a raised ValueError
Returned(op, name, bindings, max_actions, step, goal_reached, available_actions, dead_end) ==
    [op |-> op, outcome |-> "ok", error |-> "none", action |-> name, bindings |-> bindings,
     max_actions |-> max_actions, step |-> step, goal_reached |-> goal_reached,
     available_actions |-> available_actions, dead_end |-> dead_end]

Raised(op, error) ==
    [op |-> op, outcome |-> "error", error |-> error, action |-> "", bindings |-> EmptyBinding,
     max_actions |-> NoLimit, step |-> 0 - 1, goal_reached |-> FALSE,
     available_actions |-> << >>, dead_end |-> FALSE]

\* execute_action flagging a dead end only when the list was not limited
execute_result_unlimited_only(p, name, bindings, max_actions, facts, steps, seen) ==
    LET goal_reached      == is_goal_reached(p.goal, facts)
        available_actions == IF goal_reached THEN << >>
                             ELSE get_available_actions(p, facts, seen, max_actions)
    IN  Returned("execute_action", name, bindings, max_actions, steps, goal_reached,
                 available_actions,
                 ~goal_reached /\ available_actions = << >> /\ max_actions = NoLimit)

\* the result dictionary of a successful execute_action
execute_result(p, name, bindings, max_actions, facts, steps, seen) ==
    LET goal_reached      == is_goal_reached(p.goal, facts)
        available_actions == IF goal_reached THEN << >>
                             ELSE get_available_actions(p, facts, seen, max_actions)
    IN  Returned("execute_action", name, bindings, max_actions, steps, goal_reached,
                 available_actions, ~goal_reached /\ available_actions = << >>)

Limits == {NoLimit} \cup (0..MaxLimit)

ObjectNames(p) == {p.objects[i].name : i \in 1..Len(p.objects)}

ParamNames(def) == {def.parameters[i].name : i \in 1..Len(def.parameters)}

\* the bindings a caller may send for an action name: any assignment of
\* objects to some of the schema's variables
CallerBindings(p, name) ==
    IF name \in ActionNames(p)
    THEN UNION {[S -> ObjectNames(p)] : S \in SUBSET ParamNames(action_def(p, name))}
    ELSE {EmptyBinding}

CallerNames(p) == ActionNames(p) \cup {"fly"}

\* max_actions is read only after the effect has been applied, so calls
\* that raise are enumerated with a single value of it
CallerLimits(p, facts, name, bindings) ==
    IF /\ name \in ActionNames(p)
       /\ evaluate_precondition(action_def(p, name).precondition, facts, bindings)
    THEN Limits
    ELSE {NoLimit}

\* GameEngine.__init__ / GameState.__init__
EngineInit ==
    /\ current_facts = parser(prob).initial_state
    /\ step_count = 0
    /\ action_history = << >>
    /\ visited_states = {parser(prob).initial_state}
    /\ result = Returned("construct", "", EmptyBinding, NoLimit, 0, FALSE, << >>, FALSE)

InitializeGame(max_actions) ==
    /\ result' = Returned("initialize_game", "", EmptyBinding, max_actions, 0, FALSE,
                          get_available_actions(parser(prob), current_facts,
                                                visited_states, max_actions),
                          FALSE)
    /\ current_facts' = get_available_actions_leaves(parser(prob), current_facts)
    /\ UNCHANGED <<prob, step_count, action_history, visited_states>>
    /\ UNCHANGED bfs_vars
    /\ UNCHANGED route_vars
    /\ UNCHANGED thread_vars
    /\ UNCHANGED story_vars

GetAvailableActions(max_actions) ==
    /\ result' = Returned("get_available_actions", "", EmptyBinding, max_actions,
                          step_count, FALSE,
                          get_available_actions(parser(prob), current_facts,
                                                visited_states, max_actions),
                          FALSE)
    /\ current_facts' = get_available_actions_leaves(parser(prob), current_facts)
    /\ UNCHANGED <<prob, step_count, action_history, visited_states>>
    /\ UNCHANGED bfs_vars
    /\ UNCHANGED route_vars
    /\ UNCHANGED thread_vars
    /\ UNCHANGED story_vars

\* get_current_state: the step, the goal test on the current facts and the
\* unlimited list of available actions
GetCurrentState ==
    /\ result' = Returned("get_current_state", "", EmptyBinding, NoLimit, step_count,
                          is_goal_reached(parser(prob).goal, current_facts),
                          get_available_actions(parser(prob), current_facts,
                                                visited_states, NoLimit),
                          FALSE)
    /\ current_facts' = get_available_actions_leaves(parser(prob), current_facts)
    /\ UNCHANGED <<prob, step_count, action_history, visited_states>>
    /\ UNCHANGED bfs_vars
    /\ UNCHANGED route_vars
    /\ UNCHANGED thread_vars
    /\ UNCHANGED story_vars

\* apply_action recording only the state it has just produced
apply_action_visited_latest(seen, facts) == {facts}

\* apply_action: self.visited_states.add(frozenset(self.current_facts))
apply_action_visited(seen, facts) == seen \cup {facts}

\* execute_action applying the effect before it verifies the precondition
ExecuteAction_ApplyFirst(action_name, bindings, max_actions) ==
    LET p == parser(prob) IN
    /\ IF action_name \notin ActionNames(p)
       THEN /\ result' = Raised("execute_action", "Unknown action")
            /\ UNCHANGED <<current_facts, step_count, action_history, visited_states>>
       ELSE LET def == action_def(p, action_name) IN
            IF ~evaluate_precondition(def.precondition, current_facts, bindings)
            THEN /\ step_count < MaxSteps
                 /\ current_facts' = apply_action_facts(current_facts, def, bindings)
                 /\ visited_states' = apply_action_visited(visited_states, current_facts')
                 /\ step_count' = step_count + 1
                 /\ action_history' =
                        Append(action_history, apply_action_entry(step_count, def, bindings))
                 /\ result' = Raised("execute_action", "Action precondition not satisfied")
            ELSE /\ step_count < MaxSteps
                 /\ current_facts' = apply_action_facts(current_facts, def, bindings)
                 /\ visited_states' = apply_action_visited(visited_states, current_facts')
                 /\ step_count' = step_count + 1
                 /\ action_history' =
                        Append(action_history, apply_action_entry(step_count, def, bindings))
                 /\ result' = execute_result(p, action_name, bindings, max_actions,
                                             current_facts', step_count', visited_states')
    /\ UNCHANGED prob
    /\ UNCHANGED bfs_vars
    /\ UNCHANGED route_vars
    /\ UNCHANGED thread_vars
    /\ UNCHANGED story_vars

ExecuteAction(action_name, bindings, max_actions) ==
    LET p == parser(prob) IN
    /\ IF action_name \notin ActionNames(p)
       THEN /\ result' = Raised("execute_action", "Unknown action")
            /\ UNCHANGED <<current_facts, step_count, action_history, visited_states>>
       ELSE LET def == action_def(p, action_name) IN
            IF ~evaluate_precondition(def.precondition, current_facts, bindings)
            THEN /\ result' = Raised("execute_action", "Action precondition not satisfied")
                 /\ UNCHANGED <<current_facts, step_count, action_history, visited_states>>
            ELSE /\ step_count < MaxSteps
                 /\ LET facts == apply_action_facts(current_facts, def, bindings)
                    IN  /\ current_facts' = IF is_goal_reached(p.goal, facts) THEN facts
                                            ELSE get_available_actions_leaves(p, facts)
                        /\ visited_states' = apply_action_visited(visited_states, facts)
                        /\ result' = execute_result(p, action_name, bindings, max_actions,
                                                    facts, step_count + 1, visited_states')
                 /\ step_count' = step_count + 1
                 /\ action_history' =
                        Append(action_history, apply_action_entry(step_count, def, bindings))
    /\ UNCHANGED prob
    /\ UNCHANGED bfs_vars
    /\ UNCHANGED route_vars
    /\ UNCHANGED thread_vars
    /\ UNCHANGED story_vars

\* the dictionaries of the current GameState as to_dict writes them
Serialized ==
    {to_dict(current_facts, step_count, action_history, visited_states, order) :
        order \in Orders}

\* the same dictionaries as stored before visited_states was written, or
\* with an empty list in its place
SerializedWithoutVisited ==
    UNION { { [key \in DOMAIN data \ {"visited_states"} |-> data[key]],
              [data EXCEPT !.visited_states = << >>] } : data \in Serialized }

\* engine.game_state = GameState.from_dict(data, engine.parser.goal)
FromDict(data) ==
    /\ LET state == from_dict(data)
       IN  /\ current_facts' = state.current_facts
           /\ step_count' = state.step_count
           /\ action_history' = state.action_history
           /\ visited_states' = state.visited_states
           /\ result' = Returned("from_dict", "", EmptyBinding, NoLimit, state.step_count,
                                 FALSE, << >>, FALSE)
    /\ UNCHANGED prob
    /\ UNCHANGED bfs_vars
    /\ UNCHANGED route_vars
    /\ UNCHANGED thread_vars
    /\ UNCHANGED story_vars

(***************************************************************************)
(* execute_action invoked from several threads on one engine               *)
(***************************************************************************)
Threads == {1, 2}

NoCall == [action |-> "", bindings |-> EmptyBinding]

NoApplied == [action |-> "", bindings |-> EmptyBinding, before |-> {}]

\* no invocation is running and none has applied an effect
ThreadsIdle ==
    /\ pc = [t \in Threads |-> "idle"]
    /\ call = [t \in Threads |-> NoCall]
    /\ discipline = "serialized"
    /\ applied = NoApplied

\* execute_action has no guard of its own: an invocation may start at any
\* time, unless the caller lets one invocation run at a time
may_enter(t) ==
    discipline = "serialized" => \A u \in Threads : pc[u] = "idle"

\* lines 653-664 of execute_action: look up the action and verify the
\* precondition on the facts as they are now
CheckAction(t, action_name, bindings) ==
    /\ pc[t] = "idle"
    /\ may_enter(t)
    /\ LET p == parser(prob) IN
       IF action_name \notin ActionNames(p)
       THEN /\ result' = Raised("execute_action", "Unknown action")
            /\ UNCHANGED <<pc, call>>
       ELSE IF ~evaluate_precondition(action_def(p, action_name).precondition,
                                      current_facts, bindings)
       THEN /\ result' = Raised("execute_action", "Action precondition not satisfied")
            /\ UNCHANGED <<pc, call>>
       ELSE /\ step_count + Cardinality({u \in Threads : pc[u] = "checked"}) < MaxSteps
            /\ pc' = [pc EXCEPT ![t] = "checked"]
            /\ call' = [call EXCEPT ![t] = [action |-> action_name, bindings |-> bindings]]
            /\ UNCHANGED result
    /\ UNCHANGED <<prob, current_facts, step_count, action_history, visited_states>>
    /\ UNCHANGED <<discipline, applied>>
    /\ UNCHANGED bfs_vars
    /\ UNCHANGED route_vars
    /\ UNCHANGED story_vars

\* lines 666-682 of execute_action: apply the action to the facts as they
\* are now and build the result
ApplyAction(t) ==
    /\ pc[t] = "checked"
    /\ LET p   == parser(prob)
           def == action_def(p, call[t].action)
       IN  /\ current_facts' = apply_action_facts(current_facts, def, call[t].bindings)
           /\ visited_states' = apply_action_visited(visited_states, current_facts')
           /\ step_count' = step_count + 1
           /\ action_history' =
                  Append(action_history, apply_action_entry(step_count, def, call[t].bindings))
           /\ result' = execute_result(p, call[t].action, call[t].bindings, NoLimit,
                                       current_facts', step_count', visited_states')
           /\ applied' = [action |-> call[t].action, bindings |-> call[t].bindings,
                          before |-> current_facts]
    /\ pc' = [pc EXCEPT ![t] = "idle"]
    /\ call' = [call EXCEPT ![t] = NoCall]
    /\ UNCHANGED <<prob, discipline>>
    /\ UNCHANGED bfs_vars
    /\ UNCHANGED route_vars
    /\ UNCHANGED story_vars

(***************************************************************************)
(* routes/game_routes.py: one game session and the engine cache            *)
(***************************************************************************)
NoSession == [current_state |-> << >>, is_completed |-> FALSE, steps_taken |-> 0 - 1]

NoResponse == [route |-> "none", status |-> 0, error |-> "none"]

Response(route, status, error) == [route |-> route, status |-> status, error |-> error]

\* Story.pddl_domain / pddl_problem of a story without PDDL (None)
NoText == Fixed("none")

StoryRow(pddl, is_validated, status, refinements) ==
    [pddl |-> pddl, is_validated |-> is_validated, status |-> status,
     refinements |-> refinements]

\* create_story: the row with the column defaults
NewStory == StoryRow(NoText, FALSE, "draft", 0)

\* a story row as the tests create it: the pair k with is_validated = True
ValidatedStory(k) == StoryRow(k, TRUE, "validated", 0)

\* no story has been created for the engine under study
StoryIdle ==
    /\ story = NewStory
    /\ certified = {}

\* no request has been made: no session row, nothing cached
RouteIdle ==
    /\ active = FALSE
    /\ session = NoSession
    /\ response = NoResponse

\* Story.branching_factor_max, the column's default
branching_factor_max == 4

\* the fields of a GameState as one record
GameStateOf(facts, steps, history, seen) ==
    [current_facts |-> facts, step_count |-> steps,
     action_history |-> history, visited_states |-> seen]

\* GameState.__init__(parser.initial_state, parser.goal)
NewGameState(p) == GameStateOf(p.initial_state, 0, << >>, {p.initial_state})

\* the parameters GameState.from_dict declares besides cls
from_dict_parameters == {"data", "goal"}

\* the arguments of the from_dict call in _get_or_create_engine (line 40):
\* state_data, engine.parser.goal and objects=engine.parser.objects
restore_arguments == {"data", "goal", "objects"}

\* _get_or_create_engine: the cached engine, or a new one whose GameState is
\* restored from session.current_state; a call with an argument from_dict
\* does not declare raises TypeError, re-raised as ValueError
get_or_create_engine(p, cached, current, stored) ==
    IF cached
    THEN [raised |-> FALSE, state |-> current]
    ELSE IF stored # << >> /\ "facts" \in DOMAIN stored
         THEN IF restore_arguments \subseteq from_dict_parameters
              THEN [raised |-> FALSE, state |-> from_dict(stored)]
              ELSE [raised |-> TRUE, state |-> NewGameState(p)]
         ELSE [raised |-> FALSE, state |-> NewGameState(p)]

CurrentGameState ==
    GameStateOf(current_facts, step_count, action_history, visited_states)

SetGameState(state) ==
    /\ current_facts' = state.current_facts
    /\ step_count' = state.step_count
    /\ action_history' = state.action_history
    /\ visited_states' = state.visited_states

\* create_game_session: refuse a story that is not validated or has no
\* PDDL; otherwise build the engine from the story's texts, initialize the
\* game, store the session row and cache the engine
CreateGameSession ==
    /\ session = NoSession
    /\ IF ~story.is_validated
       THEN /\ response' = Response("create_game_session", 400,
                                    "Story must be validated before playing")
            /\ UNCHANGED <<prob, active, session>>
            /\ UNCHANGED engine_vars
       ELSE IF story.pddl = NoText
       THEN /\ response' = Response("create_game_session", 400, "Story missing PDDL files")
            /\ UNCHANGED <<prob, active, session>>
            /\ UNCHANGED engine_vars
       ELSE LET p == parser(story.pddl) IN
            /\ prob' = story.pddl
            /\ SetGameState(NewGameState(p))
            /\ result' = Returned("initialize_game", "", EmptyBinding, branching_factor_max,
                                  0, FALSE,
                                  get_available_actions(p, p.initial_state,
                                                        {p.initial_state},
                                                        branching_factor_max),
                                  FALSE)
            /\ \E order \in Orders :
                  session' = [current_state |-> to_dict(p.initial_state, 0, << >>,
                                                        {p.initial_state}, order),
                              is_completed |-> FALSE, steps_taken |-> 0]
            /\ active' = TRUE
            /\ response' = Response("create_game_session", 201, "none")
    /\ UNCHANGED bfs_vars
    /\ UNCHANGED thread_vars
    /\ UNCHANGED story_vars

\* start_game: the same checks, then a temporary engine and its
\* initialize_game
StartGame ==
    /\ IF ~story.is_validated
       THEN /\ response' = Response("start_game", 400,
                                    "Story must be validated before playing")
            /\ UNCHANGED prob
            /\ UNCHANGED engine_vars
       ELSE IF story.pddl = NoText
       THEN /\ response' = Response("start_game", 400, "Story missing PDDL files")
            /\ UNCHANGED prob
            /\ UNCHANGED engine_vars
       ELSE LET p == parser(story.pddl) IN
            /\ prob' = story.pddl
            /\ SetGameState(NewGameState(p))
            /\ result' = Returned("initialize_game", "", EmptyBinding, branching_factor_max,
                                  0, FALSE,
                                  get_available_actions(p, p.initial_state,
                                                        {p.initial_state},
                                                        branching_factor_max),
                                  FALSE)
            /\ response' = Response("start_game", 200, "none")
    /\ UNCHANGED <<active, session>>
    /\ UNCHANGED bfs_vars
    /\ UNCHANGED thread_vars
    /\ UNCHANGED story_vars

\* take_action: get the engine, execute the action with the story's
\* branching factor, store the new state in the session row
TakeAction(action_name, bindings) ==
    /\ session # NoSession
    /\ LET p   == parser(prob)
           got == get_or_create_engine(p, active, CurrentGameState, session.current_state)
       IN  IF got.raised
           THEN /\ response' = Response("take_action", 400, "Failed to initialize game engine")
                /\ UNCHANGED <<current_facts, step_count, action_history, visited_states>>
                /\ UNCHANGED <<result, active, session>>
           ELSE /\ active' = TRUE
                /\ IF action_name \notin ActionNames(p)
                   THEN /\ SetGameState(got.state)
                        /\ result' = Raised("execute_action", "Unknown action")
                        /\ response' = Response("take_action", 400, "Unknown action")
                        /\ UNCHANGED session
                   ELSE LET def == action_def(p, action_name) IN
                        IF ~evaluate_precondition(def.precondition, got.state.current_facts,
                                                  bindings)
                        THEN /\ SetGameState(got.state)
                             /\ result' = Raised("execute_action",
                                                 "Action precondition not satisfied")
                             /\ response' = Response("take_action", 400,
                                                     "Action precondition not satisfied")
                             /\ UNCHANGED session
                        ELSE /\ got.state.step_count < MaxSteps
                             /\ LET facts   == apply_action_facts(got.state.current_facts,
                                                                  def, bindings)
                                    seen    == got.state.visited_states \cup {facts}
                                    steps   == got.state.step_count + 1
                                    history == Append(got.state.action_history,
                                                      apply_action_entry(got.state.step_count,
                                                                         def, bindings))
                                    res     == execute_result(p, action_name, bindings,
                                                              branching_factor_max,
                                                              facts, steps, seen)
                                IN  /\ SetGameState(GameStateOf(facts, steps, history, seen))
                                    /\ result' = res
                                    /\ \E order \in Orders :
                                          session' =
                                            [current_state |->
                                                 to_dict(facts, steps, history, seen, order),
                                             is_completed |->
                                                 session.is_completed \/ res.goal_reached,
                                             steps_taken |-> steps]
                                    /\ response' = Response("take_action", 200, "none")
    /\ UNCHANGED prob
    /\ UNCHANGED bfs_vars
    /\ UNCHANGED thread_vars
    /\ UNCHANGED story_vars

\* get_game_session: get the engine and list the available actions
GetGameSession ==
    /\ session # NoSession
    /\ LET p   == parser(prob)
           got == get_or_create_engine(p, active, CurrentGameState, session.current_state)
       IN  IF got.raised
           THEN /\ response' = Response("get_game_session", 500,
                                        "Failed to initialize game engine")
                /\ UNCHANGED <<current_facts, step_count, action_history, visited_states>>
                /\ UNCHANGED <<result, active>>
           ELSE /\ active' = TRUE
                /\ SetGameState(got.state)
                /\ result' =
                       IF session.is_completed THEN result
                       ELSE Returned("get_available_actions", "", EmptyBinding,
                                     branching_factor_max, got.state.step_count, FALSE,
                                     get_available_actions(p, got.state.current_facts,
                                                           got.state.visited_states,
                                                           branching_factor_max),
                                     FALSE)
                /\ response' = Response("get_game_session", 200, "none")
    /\ UNCHANGED <<prob, session>>
    /\ UNCHANGED bfs_vars
    /\ UNCHANGED thread_vars
    /\ UNCHANGED story_vars

\* the process restarts: the in-memory cache and its engines are gone
Restart ==
    /\ session # NoSession
    /\ active
    /\ active' = FALSE
    /\ SetGameState(GameStateOf({}, 0, << >>, {}))
    /\ response' = NoResponse
    /\ UNCHANGED <<prob, result, session>>
    /\ UNCHANGED bfs_vars
    /\ UNCHANGED thread_vars
    /\ UNCHANGED story_vars

(***************************************************************************)
(* PDDLValidationService._check_reachability_internal                      *)
(***************************************************************************)
ReachReturn(reachable, message, depth) ==
    [reachable |-> reachable, message |-> message, depth |-> depth]

NoReturn == ReachReturn(FALSE, "running", 0 - 1)

\* the state bound reported as a failed search
inconclusive_return_as_failure == ReachReturn(FALSE, "No reachable solution found", 0 - 1)

\* lines 177-180: what the search returns when len(visited) > max_states
inconclusive_return == ReachReturn(TRUE, "inconclusive - assuming valid", 0 - 1)

\* the goal test of the search looking at the positive literals only
goal_ok_positive_only(goal, current_set) ==
    \A i \in 1..Len(get(goal, "positive", << >>)) :
        get(goal, "positive", << >>)[i] \in current_set

\* lines 186-187: goal_ok for the dequeued state
goal_ok(goal, current_set) ==
    LET positive_ok == \A i \in 1..Len(get(goal, "positive", << >>)) :
                           get(goal, "positive", << >>)[i] \in current_set
    IN  positive_ok /\ \A i \in 1..Len(get(goal, "negative", << >>)) :
                           get(goal, "negative", << >>)[i] \notin current_set

\* the loop body enqueuing the successor whether or not it was visited
expand_one_unchecked(p, applicable, current_set, depth, before, k) ==
    LET next_frozen == simulate_action_effect(action_def(p, applicable[k].action),
                                              applicable[k].bindings, current_set)
    IN  [visited |-> before.visited \cup {next_frozen},
         queue |-> Append(before.queue, [state |-> next_frozen, depth |-> depth + 1])]

\* one pass of the body of `for action in applicable`, for applicable[k]
expand_one(p, applicable, current_set, depth, before, k) ==
    LET next_frozen == simulate_action_effect(action_def(p, applicable[k].action),
                                              applicable[k].bindings, current_set)
    IN  IF next_frozen \notin before.visited
        THEN [visited |-> before.visited \cup {next_frozen},
              queue |-> Append(before.queue, [state |-> next_frozen, depth |-> depth + 1])]
        ELSE before

\* the passes lo..hi of the loop, in order.  The range is halved, and the
\* first half is asked for its queue before the second half starts, so
\* that long lists of applicable actions do not nest deeply.
RECURSIVE expand_range(_, _, _, _, _, _, _)
expand_range(p, applicable, current_set, depth, acc, lo, hi) ==
    IF lo > hi THEN acc
    ELSE IF lo = hi THEN expand_one(p, applicable, current_set, depth, acc, lo)
    ELSE LET mid  == (lo + hi) \div 2
             left == expand_range(p, applicable, current_set, depth, acc, lo, mid)
         IN  IF Len(left.queue) >= 0
             THEN expand_range(p, applicable, current_set, depth, left, mid + 1, hi)
             ELSE left

\* the `for action in applicable` loop: enqueue every unseen successor
expand_upto(p, applicable, current_set, depth, acc, k) ==
    expand_range(p, applicable, current_set, depth, acc, 1, k)

\* the successor loop stopping one applicable action early
expand_skip_last(p, current_set, depth, seen, rest) ==
    LET applicable == get_applicable_actions(p, current_set)
    IN  expand_upto(p, applicable, current_set, depth,
                    [visited |-> seen, queue |-> rest],
                    IF Len(applicable) > 0 THEN Len(applicable) - 1 ELSE 0)

\* the loop body putting the dequeued state back behind its successors
expand_keep_current(p, current_set, depth, seen, rest) ==
    LET applicable == get_applicable_actions(p, current_set)
        after      == expand_upto(p, applicable, current_set, depth,
                                  [visited |-> seen, queue |-> rest], Len(applicable))
    IN  [visited |-> after.visited,
         queue |-> Append(after.queue, [state |-> current_set, depth |-> depth])]

expand(p, current_set, depth, seen, rest) ==
    LET applicable == get_applicable_actions(p, current_set)
    IN  expand_upto(p, applicable, current_set, depth,
                    [visited |-> seen, queue |-> rest], Len(applicable))

\* the depth test cutting the search one level short
depth_bound_hit_early(depth) == depth >= max_depth - 1

\* line 191: `if depth >= max_depth: continue`
depth_bound_hit(depth) == depth >= max_depth

BfsIdle ==
    /\ bfs_pc = "idle"
    /\ queue = << >>
    /\ visited = {}
    /\ reach_result = NoReturn
    /\ errors = << >>

\* lines 166-174: parse, seed the queue and the visited set
ReachStart ==
    /\ bfs_pc = "idle"
    /\ queue' = << [state |-> parser(prob).initial_state, depth |-> 0] >>
    /\ visited' = {parser(prob).initial_state}
    /\ bfs_pc' = "loop"
    /\ UNCHANGED <<prob, reach_result, errors>>
    /\ UNCHANGED engine_vars
    /\ UNCHANGED route_vars
    /\ UNCHANGED thread_vars
    /\ UNCHANGED story_vars

\* validate, lines 49-51: a check that did not return reachable adds its
\* message to the errors
validate_errors(errs, reach) ==
    IF ~reach.reachable THEN Append(errs, reach.message) ELSE errs

\* one evaluation of `while queue:` and of the loop body; when the search
\* returns, validate goes on with the returned pair
ReachStep ==
    /\ bfs_pc = "loop"
    /\ IF queue = << >>
       THEN /\ reach_result' = ReachReturn(FALSE, "No reachable solution found", 0 - 1)
            /\ errors' = validate_errors(errors, reach_result')
            /\ bfs_pc' = "done"
            /\ UNCHANGED <<queue, visited>>
       ELSE IF Cardinality(visited) > max_states
       THEN /\ reach_result' = inconclusive_return
            /\ errors' = validate_errors(errors, reach_result')
            /\ bfs_pc' = "done"
            /\ UNCHANGED <<queue, visited>>
       ELSE LET current == Head(queue) IN
            IF goal_ok(parser(prob).goal, current.state)
            THEN /\ reach_result' = ReachReturn(TRUE, "Goal reachable in steps", current.depth)
                 /\ errors' = validate_errors(errors, reach_result')
                 /\ bfs_pc' = "done"
                 /\ queue' = Tail(queue)
                 /\ UNCHANGED visited
            ELSE IF depth_bound_hit(current.depth)
            THEN /\ queue' = Tail(queue)
                 /\ UNCHANGED <<visited, reach_result, bfs_pc, errors>>
            ELSE LET after == expand(parser(prob), current.state, current.depth,
                                     visited, Tail(queue))
                 IN  /\ queue' = after.queue
                     /\ visited' = after.visited
                     /\ UNCHANGED <<reach_result, bfs_pc, errors>>
    /\ UNCHANGED prob
    /\ UNCHANGED engine_vars
    /\ UNCHANGED route_vars
    /\ UNCHANGED thread_vars
    /\ UNCHANGED story_vars

(***************************************************************************)
(* PDDLValidationService.validate and routes/story_routes.py               *)
(***************************************************************************)
\* _validate_syntax on the texts of the pair k: the headers are in every
\* text, the parentheses do not balance when the closing one is cut off
validate_syntax(k) ==
    IF "close" \in k.missing
    THEN << "Unbalanced parentheses in problem file" >>
    ELSE << >>

\* the `while queue:` loop of _check_reachability_internal run to its return
RECURSIVE reach_loop(_, _, _)
reach_loop(p, pending, seen) ==
    IF pending = << >>
    THEN ReachReturn(FALSE, "No reachable solution found", 0 - 1)
    ELSE IF Cardinality(seen) > max_states
    THEN inconclusive_return
    ELSE LET current == Head(pending) IN
         IF goal_ok(p.goal, current.state)
         THEN ReachReturn(TRUE, "Goal reachable in steps", current.depth)
         ELSE IF depth_bound_hit(current.depth)
         THEN reach_loop(p, Tail(pending), seen)
         ELSE LET after == expand(p, current.state, current.depth, seen, Tail(pending))
              IN  reach_loop(p, after.queue, after.visited)

check_reachability_internal(p) ==
    reach_loop(p, << [state |-> p.initial_state, depth |-> 0] >>, {p.initial_state})

\* validate without Fast Downward installed: the syntax errors, or with
\* clean syntax the message of a search that did not return reachable
validate(k) ==
    LET syntax_errors == validate_syntax(k)
        found == IF syntax_errors # << >> THEN syntax_errors
                 ELSE validate_errors(<< >>, check_reachability_internal(parser(k)))
    IN  [is_valid |-> Len(found) = 0, errors |-> found]

\* the pairs of texts the language model may hand back
StoryTexts ==
    { Fixed("simple-adventure"),
      Without(Fixed("simple-adventure"), {"close"}),
      Switch({"set"}, {}, 1) }

\* RefinementHistory rows kept per story
MaxRefinements == 2

\* generate_pddl: store the generated texts and the status 'generated';
\* an error of the generation service is answered with 500
GeneratePddl(text, raised) ==
    /\ IF raised
       THEN /\ response' = Response("generate_pddl", 500, "generation failed")
            /\ UNCHANGED story
       ELSE /\ story' = [story EXCEPT !.pddl = text, !.status = "generated"]
            /\ response' = Response("generate_pddl", 200, "none")
    /\ UNCHANGED <<prob, active, session, certified>>
    /\ UNCHANGED engine_vars
    /\ UNCHANGED bfs_vars
    /\ UNCHANGED thread_vars

\* validate_pddl: a valid story is marked validated; an invalid one gets a
\* RefinementHistory row, unless the reflection service raises
ValidatePddl(analysed) ==
    /\ IF story.pddl = NoText
       THEN /\ response' = Response("validate_pddl", 400, "No PDDL to validate")
            /\ UNCHANGED story_vars
       ELSE IF validate(story.pddl).is_valid
       THEN /\ story' = [story EXCEPT !.is_validated = TRUE, !.status = "validated"]
            /\ certified' = certified \cup {story.pddl}
            /\ response' = Response("validate_pddl", 200, "none")
       ELSE IF analysed /\ story.refinements < MaxRefinements
       THEN /\ story' = [story EXCEPT !.refinements = @ + 1]
            /\ response' = Response("validate_pddl", 200, "invalid")
            /\ UNCHANGED certified
       ELSE /\ response' = Response("validate_pddl", 500, "reflection failed")
            /\ UNCHANGED story_vars
    /\ UNCHANGED <<prob, active, session>>
    /\ UNCHANGED engine_vars
    /\ UNCHANGED bfs_vars
    /\ UNCHANGED thread_vars

\* refine_pddl: needs the id of a refinement row; stores the refined texts
RefinePddl(refinement_id, text, raised) ==
    /\ IF refinement_id = 0
       THEN /\ response' = Response("refine_pddl", 400, "Refinement ID required")
            /\ UNCHANGED story
       ELSE IF refinement_id > story.refinements
       THEN /\ response' = Response("refine_pddl", 404, "not found")
            /\ UNCHANGED story
       ELSE IF raised
       THEN /\ response' = Response("refine_pddl", 500, "refinement failed")
            /\ UNCHANGED story
       ELSE /\ story' = [story EXCEPT !.pddl = text]
            /\ response' = Response("refine_pddl", 200, "none")
    /\ UNCHANGED <<prob, active, session, certified>>
    /\ UNCHANGED engine_vars
    /\ UNCHANGED bfs_vars
    /\ UNCHANGED thread_vars

\* update_story: title, description, lore_content and status as sent
UpdateStory(status) ==
    /\ story' = [story EXCEPT !.status = status]
    /\ response' = Response("update_story", 200, "none")
    /\ UNCHANGED <<prob, active, session, certified>>
    /\ UNCHANGED engine_vars
    /\ UNCHANGED bfs_vars
    /\ UNCHANGED thread_vars

(***************************************************************************)
(* Specifications                                                          *)
(***************************************************************************)
Init ==
    /\ prob \in EngineProblems
    /\ EngineInit
    /\ BfsIdle
    /\ RouteIdle
    /\ ThreadsIdle
    /\ StoryIdle

Next ==
    \/ \E max_actions \in Limits : InitializeGame(max_actions)
    \/ \E max_actions \in Limits : GetAvailableActions(max_actions)
    \/ \E action_name \in CallerNames(parser(prob)) :
         \E bindings \in CallerBindings(parser(prob), action_name) :
           \E max_actions \in CallerLimits(parser(prob), current_facts, action_name, bindings) :
             ExecuteAction(action_name, bindings, max_actions)
    \/ GetCurrentState

Spec == Init /\ [][Next]_vars

\* the engine with its GameState written out and read back between calls
NextRestore ==
    \/ Next
    \/ \E data \in Serialized : FromDict(data)
    \/ \E data \in SerializedWithoutVisited : FromDict(data)

RestoreProblems == { Fixed("simple-adventure"), Fixed("one-way") }

InitRestore ==
    /\ prob \in RestoreProblems
    /\ EngineInit
    /\ BfsIdle
    /\ RouteIdle
    /\ ThreadsIdle
    /\ StoryIdle

SpecRestore == InitRestore /\ [][NextRestore]_vars

\* one session of a story, played over HTTP
RouteProblems == { Fixed("escape-room"), Fixed("simple-adventure") }

InitRoutes ==
    /\ prob \in RouteProblems
    /\ EngineInit
    /\ BfsIdle
    /\ RouteIdle
    /\ ThreadsIdle
    /\ story = ValidatedStory(prob)
    /\ certified = {}

NextRoutes ==
    \/ CreateGameSession
    \/ \E action_name \in CallerNames(parser(prob)) :
         \E bindings \in CallerBindings(parser(prob), action_name) :
           TakeAction(action_name, bindings)
    \/ GetGameSession
    \/ Restart

SpecRoutes == InitRoutes /\ [][NextRoutes]_vars

\* one story from create_story on: its PDDL is generated, validated,
\* refined, and games are started for it
InitStory ==
    /\ prob = NoText
    /\ current_facts = {}
    /\ step_count = 0
    /\ action_history = << >>
    /\ visited_states = {}
    /\ result = Returned("none", "", EmptyBinding, NoLimit, 0, FALSE, << >>, FALSE)
    /\ BfsIdle
    /\ RouteIdle
    /\ ThreadsIdle
    /\ StoryIdle

NextStory ==
    \/ \E text \in StoryTexts : \E raised \in BOOLEAN : GeneratePddl(text, raised)
    \/ \E analysed \in BOOLEAN : ValidatePddl(analysed)
    \/ \E refinement_id \in 0..MaxRefinements :
         \E text \in StoryTexts : \E raised \in BOOLEAN :
           RefinePddl(refinement_id, text, raised)
    \/ \E status \in {"draft", "validated", "published"} : UpdateStory(status)
    \/ StartGame
    \/ CreateGameSession

SpecStory == InitStory /\ [][NextStory]_vars

\* two callers of one engine, serialized by the caller or not
ThreadProblems == { Fixed("escape-room"), Fixed("simple-adventure") }

InitThreads ==
    /\ prob \in ThreadProblems
    /\ EngineInit
    /\ BfsIdle
    /\ RouteIdle
    /\ pc = [t \in Threads |-> "idle"]
    /\ call = [t \in Threads |-> NoCall]
    /\ discipline \in {"serialized", "free"}
    /\ applied = NoApplied
    /\ StoryIdle

NextThreads ==
    \/ \E t \in Threads :
         \E action_name \in CallerNames(parser(prob)) :
           \E bindings \in CallerBindings(parser(prob), action_name) :
             CheckAction(t, action_name, bindings)
    \/ \E t \in Threads : ApplyAction(t)

SpecThreads == InitThreads /\ [][NextThreads]_vars

InitReach ==
    /\ prob \in ReachProblems
    /\ EngineInit
    /\ BfsIdle
    /\ RouteIdle
    /\ ThreadsIdle
    /\ StoryIdle

NextReach ==
    \/ ReachStart
    \/ ReachStep

SpecReach == InitReach /\ [][NextReach]_vars

\* _check_reachability_internal is straight-line synchronous code: while
\* it has a next statement to run, it runs it.  ReachStep is enabled
\* exactly when bfs_pc = "loop" (each of its branches changes bfs_pc or
\* the queue), so its weak fairness, []<>(~ENABLED <<ReachStep>>_vars) \/
\* []<><<ReachStep>>_vars, is written with that state predicate.
SpecReachFair ==
    /\ SpecReach
    /\ WF_vars(ReachStart)
    /\ ([]<>(bfs_pc # "loop") \/ []<><<ReachStep>>_vars)

(***************************************************************************)
(* Properties                                                              *)
(***************************************************************************)
GameStateVars == <<current_facts, step_count, action_history, visited_states>>

SucceededExecute(r) == r.op = "execute_action" /\ r.outcome = "ok"

FailedExecute(r) == r.op = "execute_action" /\ r.outcome = "error"

Grounded(preds, bindings) == {ground_predicate(preds[i], bindings) : i \in 1..Len(preds)}

Holds(cond, bindings, s) ==
    /\ Grounded(cond.positive, bindings) \subseteq s
    /\ Grounded(cond.negative, bindings) \cap s = {}

\* C1: an execute_action that raises (unknown action name, or precondition
\* false for the supplied binding) leaves facts, step counter, history and
\* visited set exactly as they were; and no call with an unknown name or a
\* false precondition gets through: every execute_action step is either
\* such a failure or a success of a known action whose precondition held.
C1_FailedExecuteKeepsGameState ==
    [][result'.op = "execute_action" =>
          \/ FailedExecute(result') /\ UNCHANGED GameStateVars
          \/ /\ SucceededExecute(result')
             /\ result'.action \in ActionNames(parser(prob))
             /\ Holds(action_def(parser(prob), result'.action).precondition,
                      result'.bindings, current_facts)]_vars

C1_Witness ==
    /\ FailedExecute(result)
    /\ result.error = "Action precondition not satisfied"
    /\ step_count >= 1
    /\ Cardinality(visited_states) >= 2

\* every literal of the effect of def under bindings is reflected in the
\* step from `before` to `after`, and nothing else changed
WholeEffect(def, bindings, before, after) ==
    LET adds == Grounded(def.effect.add, bindings)
        dels == Grounded(def.effect.delete, bindings)
    IN  /\ \A f \in dels : f \notin after
        /\ \A f \in adds \ dels : f \in after
        /\ \A f \in before \ dels : f \in after
        /\ \A f \in after : f \in before \/ f \in adds

\* C2: effect atomicity - an execute_action step either leaves the facts
\* as they were or applies every add and delete literal of the action.
C2_EffectAtomicity ==
    [][result'.op = "execute_action" =>
          \/ current_facts' = current_facts /\ FailedExecute(result')
          \/ /\ SucceededExecute(result')
             /\ WholeEffect(action_def(parser(prob), result'.action), result'.bindings,
                            current_facts, current_facts')]_vars

C2_Witness ==
    /\ SucceededExecute(result)
    /\ LET def == action_def(parser(prob), result.action)
       IN  Len(def.effect.add) + Len(def.effect.delete) >= 2
    /\ current_facts # parser(prob).initial_state

\* C3: a successful execute_action(name, binding) at step counter n
\* changes the facts by the effect, appends exactly (n+1, name, binding)
\* to the history, adds the new signature to visited, sets the counter to
\* n+1 and returns n+1 with the goal flag of the new state.
C3_SuccessfulExecute ==
    [][SucceededExecute(result') =>
          LET p    == parser(prob)
              def  == action_def(p, result'.action)
              b    == result'.bindings
              n    == step_count
          IN  /\ current_facts' = (current_facts \cup Grounded(def.effect.add, b))
                                      \ Grounded(def.effect.delete, b)
              /\ action_history' =
                    Append(action_history, [step |-> n + 1, action |-> def.name, bindings |-> b])
              /\ visited_states' = visited_states \cup {current_facts'}
              /\ step_count' = n + 1
              /\ result'.step = n + 1
              /\ result'.goal_reached =
                    (/\ Grounded(p.goal.positive, EmptyBinding) \subseteq current_facts'
                     /\ Grounded(p.goal.negative, EmptyBinding) \cap current_facts' = {})]_vars

C3_Witness ==
    /\ SucceededExecute(result)
    /\ step_count = 2
    /\ Len(action_history) = 2
    /\ Cardinality(visited_states) = 3

\* C4: every action listed by the last operation (initialize_game,
\* get_available_actions, or the available actions of an execute_action
\* result) is accepted by execute_action in the state it was listed for.
C4_ListedActionsExecute ==
    \A i \in 1..Len(result.available_actions) :
        LET a == result.available_actions[i]
        IN  /\ a.action \in ActionNames(parser(prob))
            /\ evaluate_precondition(action_def(parser(prob), a.action).precondition,
                                     current_facts, a.bindings)

C4_Witness ==
    /\ result.op = "get_available_actions"
    /\ Len(result.available_actions) >= 2
    /\ step_count >= 1

Call(name, bindings) == [action |-> name, bindings |-> bindings]

SameCall(a, c) == a.action = c.action /\ a.bindings = c.bindings

Listed(c, list) == \E i \in 1..Len(list) : SameCall(list[i], c)

ListedRevisiting(c, list) == \E i \in 1..Len(list) : SameCall(list[i], c) /\ list[i].revisits_state

\* the play-through of tests/test_e2e.py test_play_to_completion
EscapePlan ==
    << Call("pickup", [i |-> "key", r |-> "cell"]),
       Call("unlock-door", [i |-> "key", r1 |-> "cell", r2 |-> "corridor"]),
       Call("move", [from |-> "cell", to |-> "corridor"]),
       Call("move", [from |-> "corridor", to |-> "exit"]),
       Call("escape", [r |-> "exit"]) >>

FollowsPlan(k) ==
    /\ Len(action_history) = k
    /\ \A j \in 1..k : SameCall(action_history[j], EscapePlan[j])

\* C5: in the escape room, playing pickup(key,cell), unlock-door(key,cell,
\* corridor), move(cell,corridor), move(corridor,exit), escape(exit) from
\* the initial state, every action is listed as available when its turn
\* comes, the goal flag is false after steps 1 to 4 and true at step 5.
C5_EscapeRoomPlay ==
    prob = Fixed("escape-room") =>
        \A k \in 0..Len(EscapePlan) :
            FollowsPlan(k) =>
                /\ step_count = k
                /\ k < Len(EscapePlan) =>
                      Listed(EscapePlan[k + 1],
                             get_available_actions(parser(prob), current_facts,
                                                   visited_states, NoLimit))
                /\ (k >= 1 /\ SucceededExecute(result)) =>
                      /\ result.step = k
                      /\ result.goal_reached = (k = Len(EscapePlan))

C5_Witness ==
    /\ prob = Fixed("escape-room")
    /\ FollowsPlan(Len(EscapePlan))
    /\ SucceededExecute(result)
    /\ result.goal_reached
    /\ result.step = 5

\* C6: the reachability check on the escape room returns reachable with
\* the message "Goal reachable in 5 steps".
C6_EscapeRoomReachableInFive ==
    (prob = Fixed("escape-room") /\ bfs_pc = "done") =>
        /\ reach_result.reachable
        /\ reach_result.message = "Goal reachable in steps"
        /\ reach_result.depth = 5

(***************************************************************************)
(* The grounded state graph, written with sets and without the queue:      *)
(* type compatible total bindings, precondition, successor states, and the *)
(* length of a shortest plan (-1 when no goal state can be reached).       *)
(***************************************************************************)
Compatible(p, param) ==
    LET exact == {i \in 1..Len(p.objects) :
                     p.objects[i].type = param.type \/ param.type = "object"}
    IN  IF exact = {} THEN ObjectNames(p) ELSE {p.objects[i].name : i \in exact}

GroundBindings(p, def) ==
    {b \in [ParamNames(def) -> ObjectNames(p)] :
        \A i \in 1..Len(def.parameters) :
            b[def.parameters[i].name] \in Compatible(p, def.parameters[i])}

\* the literals of a condition in which no parameter of def occurs
IsClosed(def, literal) ==
    \A j \in 1..Len(literal) : \A n \in ParamNames(def) : literal[j] # "?" \o n

ClosedPart(def, cond) ==
    [positive |-> SelectSeq(cond.positive, LAMBDA l : IsClosed(def, l)),
     negative |-> SelectSeq(cond.negative, LAMBDA l : IsClosed(def, l))]

\* (a schema whose parameter-free precondition literals fail in s has no
\* applicable instance, whatever the binding)
GroundSuccessors(p, s) ==
    UNION { IF Holds(ClosedPart(p.actions[i], p.actions[i].precondition), EmptyBinding, s)
            THEN { (s \cup Grounded(p.actions[i].effect.add, b))
                      \ Grounded(p.actions[i].effect.delete, b) :
                   b \in {c \in GroundBindings(p, p.actions[i]) :
                             Holds(p.actions[i].precondition, c, s)} }
            ELSE {} :
            i \in 1..Len(p.actions) }

\* breadth-first layers: `frontier` holds the states whose shortest path
\* from the initial state has exactly k steps
RECURSIVE DistanceFrom(_, _, _, _)
DistanceFrom(p, reached, frontier, k) ==
    IF \E s \in frontier : Holds(p.goal, EmptyBinding, s)
    THEN k
    ELSE LET next == UNION {GroundSuccessors(p, s) : s \in frontier} \ reached
         IN  IF next = {} THEN 0 - 1
             ELSE DistanceFrom(p, reached \cup next, next, k + 1)

GoalDistance(p) == DistanceFrom(p, {p.initial_state}, {p.initial_state}, 0)

\* C7: whenever some sequence of k <= max_depth applicable ground actions
\* leads from the initial state to a goal state, the reachability check
\* returns reachable = true.
C7_SolvableIsReachable ==
    (bfs_pc = "done" /\ GoalDistance(parser(prob)) \in 0..max_depth) =>
        reach_result.reachable

\* the boundary case: a shortest plan of exactly max_depth steps is found
C7_Witness ==
    /\ bfs_pc = "done"
    /\ GoalDistance(parser(prob)) = max_depth
    /\ reach_result.reachable
    /\ reach_result.depth = max_depth

\* C8: when a successful execute_action leads to a state without
\* applicable actions in which the goal does not hold, its result carries
\* dead_end = true, whatever max_actions was passed.
C8_DeadEndReported ==
    ( /\ SucceededExecute(result)
      /\ get_applicable_actions(parser(prob), current_facts) = << >>
      /\ ~is_goal_reached(parser(prob).goal, current_facts) )
    => result.dead_end

C8_Witness ==
    /\ SucceededExecute(result)
    /\ result.max_actions = 2
    /\ GroundSuccessors(parser(prob), current_facts) = {}
    /\ ~Holds(parser(prob).goal, EmptyBinding, current_facts)
    /\ result.dead_end

\* the facts after the first k entries of a history, from the initial state
RECURSIVE Replay(_, _, _)
Replay(p, history, k) ==
    IF k = 0 THEN p.initial_state
    ELSE LET before == Replay(p, history, k - 1)
             def    == action_def(p, history[k].action)
         IN  (before \cup Grounded(def.effect.add, history[k].bindings))
                \ Grounded(def.effect.delete, history[k].bindings)

MoveOut == Call("move", [from |-> "cell", to |-> "corridor"])

MoveBack == Call("move", [from |-> "corridor", to |-> "cell"])

EndsWithRoundTrip ==
    /\ prob = Fixed("escape-room")
    /\ Len(action_history) >= 2
    /\ SameCall(action_history[Len(action_history) - 1], MoveOut)
    /\ SameCall(action_history[Len(action_history)], MoveBack)

\* C9 as stated: after move(cell,corridor) followed by move(corridor,cell)
\* the facts equal the initial facts and the corresponding action is
\* listed with revisits_state = true.
C9_RoundTripIsInitial ==
    EndsWithRoundTrip =>
        /\ current_facts = parser(prob).initial_state
        /\ ListedRevisiting(MoveOut,
                            get_available_actions(parser(prob), current_facts,
                                                  visited_states, NoLimit))

\* C9 amended: in the escape room, after move(cell,corridor) the action
\* move(corridor,cell) is listed with revisits_state = true; after
\* executing it the facts equal the facts before the two moves (which are
\* not the initial facts: the door had to be unlocked first) and
\* move(cell,corridor) is listed with revisits_state = true.
C9_RoundTripReturns ==
    LET n     == Len(action_history)
        avail == get_available_actions(parser(prob), current_facts, visited_states, NoLimit)
    IN  /\ (prob = Fixed("escape-room") /\ n >= 1 /\ SameCall(action_history[n], MoveOut))
              => ListedRevisiting(MoveBack, avail)
        /\ EndsWithRoundTrip =>
              /\ current_facts = Replay(parser(prob), action_history, n - 2)
              /\ current_facts # parser(prob).initial_state
              /\ ListedRevisiting(MoveOut, avail)

C9_Witness ==
    /\ EndsWithRoundTrip
    /\ SucceededExecute(result)
    /\ current_facts \in visited_states
    /\ step_count = 4

\* C10: whenever initialize_game has returned, the facts are the initial
\* facts, the step counter is 0, the history is empty, visited holds only
\* the initial signature, and the result is step 0 with the actions
\* applicable in the initial state.
C10_InitializeResets ==
    result.op = "initialize_game" =>
        LET init == parser(prob).initial_state
        IN  /\ current_facts = init
            /\ step_count = 0
            /\ action_history = << >>
            /\ visited_states = {init}
            /\ result.step = 0
            /\ result.available_actions =
                  get_available_actions(parser(prob), init, {init}, result.max_actions)

\* C11: once an execute_action has returned goal_reached = true, no later
\* request changes the facts, the step counter or the history, and the goal
\* condition keeps holding.  (The facts only change in a successful
\* execute_action, so "goal holds in the facts after at least one step" is
\* "the execute_action that produced these facts returned goal_reached".)
C11_GoalReachedIsTerminal ==
    [][ (step_count > 0 /\ is_goal_reached(parser(prob).goal, current_facts))
          => /\ UNCHANGED <<current_facts, step_count, action_history>>
             /\ is_goal_reached(parser(prob).goal, current_facts') ]_vars

(***************************************************************************)
(* listAvailableActions, restated on the grounded state graph              *)
(***************************************************************************)
\* the applicable ground actions of the facts s
ApplicableCalls(p, s) ==
    UNION { { Call(p.actions[i].name, b) :
                b \in {c \in GroundBindings(p, p.actions[i]) :
                          Holds(p.actions[i].precondition, c, s)} } :
            i \in 1..Len(p.actions) }

\* the facts the call c leads to from s
SimulatedFacts(p, c, s) ==
    LET def == action_def(p, c.action)
    IN  (s \cup Grounded(def.effect.add, c.bindings)) \ Grounded(def.effect.delete, c.bindings)

\* the applicable calls that lead to a signature in seen
RevisitingCalls(p, s, seen) == {c \in ApplicableCalls(p, s) : SimulatedFacts(p, c, s) \in seen}

CallsOf(list) == {Call(list[i].action, list[i].bindings) : i \in 1..Len(list)}

\* the last operation returned a list of available actions for the
\* current state
ListsActions(r) ==
    /\ r.outcome = "ok"
    /\ \/ r.op \in {"initialize_game", "get_available_actions"}
       \/ r.op = "execute_action" /\ ~r.goal_reached

\* C12: the returned list holds applicable ground actions of the current
\* state, each at most once, every non-revisiting one before every
\* revisiting one; with a limit smaller than the number of applicable
\* actions it is exactly the first `limit` entries of the unlimited list,
\* so a revisiting action is returned only if every non-revisiting one is;
\* otherwise every applicable action is returned exactly once.
C12_ListOrderAndLimit ==
    ListsActions(result) =>
        LET p    == parser(prob)
            list == result.available_actions
            lim  == result.max_actions
            A    == ApplicableCalls(p, current_facts)
            R    == RevisitingCalls(p, current_facts, visited_states)
            at(i) == Call(list[i].action, list[i].bindings)
        IN  /\ CallsOf(list) \subseteq A
            /\ \A i, j \in 1..Len(list) : i # j => at(i) # at(j)
            /\ \A i, j \in 1..Len(list) : (i < j /\ at(i) \in R) => at(j) \in R
            /\ IF lim # NoLimit /\ Cardinality(A) > lim
               THEN /\ Len(list) = lim
                    /\ list = SubSeq(get_available_actions(p, current_facts,
                                                           visited_states, NoLimit), 1, lim)
                    /\ (CallsOf(list) \cap R # {}) => (A \ R) \subseteq CallsOf(list)
               ELSE /\ CallsOf(list) = A
                    /\ Len(list) = Cardinality(A)

\* a limited list that had to drop actions while both kinds were applicable
C12_Witness ==
    /\ result.op = "get_available_actions"
    /\ result.max_actions = 2
    /\ LET A == ApplicableCalls(parser(prob), current_facts)
           R == RevisitingCalls(parser(prob), current_facts, visited_states)
       IN  /\ Cardinality(A) > 2
           /\ R # {}
           /\ CallsOf(result.available_actions) \cap R # {}

\* the signatures the session has occupied: the initial facts and the
\* facts after each executed action of the history
Occupied(p, history) == {Replay(p, history, k) : k \in 0..Len(history)}

\* C13: a returned action is annotated revisits_state = true exactly when
\* the facts obtained by applying its effect to the current facts are a
\* member of visited_states, which holds the initial facts and the facts
\* the session occupied after each earlier execute_action.
C13_RevisitsIffVisited ==
    ListsActions(result) =>
        LET p    == parser(prob)
            list == result.available_actions
        IN  /\ visited_states = Occupied(p, action_history)
            /\ \A i \in 1..Len(list) :
                  list[i].revisits_state <=>
                      SimulatedFacts(p, Call(list[i].action, list[i].bindings), current_facts)
                          \in Occupied(p, action_history)

\* a list with both annotations, where a revisiting action leads back to
\* a state that is neither the current nor the initial one
C13_Witness ==
    /\ ListsActions(result)
    /\ LET p    == parser(prob)
           list == result.available_actions
       IN  /\ \E i \in 1..Len(list) : ~list[i].revisits_state
           /\ \E i \in 1..Len(list) :
                 LET to == SimulatedFacts(p, Call(list[i].action, list[i].bindings),
                                          current_facts)
                 IN  /\ list[i].revisits_state
                     /\ to # current_facts
                     /\ to # p.initial_state

\* a condition without literals
EmptyCondition == [positive |-> << >>, negative |-> << >>]

\* the state and the three conditions of tests/test_game_service.py
\* test_state_evaluator
TestState == { <<"at", "room1">>, <<"at-item", "key", "room1">> }

TestConditions ==
    << [positive |-> <<  <<"at", "room1">> >>, negative |-> << >>],
       [positive |-> <<  <<"at", "room1">> >>, negative |-> <<  <<"at", "room2">> >>],
       [positive |-> <<  <<"at", "room2">> >>, negative |-> << >>] >>

\* C14: evaluate_precondition(condition, state, binding) is true exactly
\* when every grounded positive literal is in the state and no grounded
\* negative literal is; a condition without literals holds in every state.
\* Checked in every reachable state for every schema's precondition under
\* every binding a caller can send, and on the test's three cases.
C14_PreconditionSemantics ==
    LET p == parser(prob)
    IN  /\ \A name \in ActionNames(p) : \A b \in CallerBindings(p, name) :
              LET cond == action_def(p, name).precondition
              IN  /\ evaluate_precondition(cond, current_facts, b) <=>
                        /\ \A f \in Grounded(cond.positive, b) : f \in current_facts
                        /\ \A f \in Grounded(cond.negative, b) : f \notin current_facts
                  /\ evaluate_precondition(EmptyCondition, current_facts, b)
        /\ evaluate_precondition(TestConditions[1], TestState, EmptyBinding)
        /\ evaluate_precondition(TestConditions[2], TestState, EmptyBinding)
        /\ ~evaluate_precondition(TestConditions[3], TestState, EmptyBinding)

\* an execute_action was rejected while some call has all its positive
\* literals in the facts and is stopped by a negative literal alone
C14_Witness ==
    /\ FailedExecute(result)
    /\ result.error = "Action precondition not satisfied"
    /\ step_count >= 1
    /\ LET p == parser(prob)
       IN  \E name \in ActionNames(p) : \E b \in CallerBindings(p, name) :
              LET cond == action_def(p, name).precondition
              IN  /\ cond.positive # << >>
                  /\ Grounded(cond.positive, b) \subseteq current_facts
                  /\ Grounded(cond.negative, b) \cap current_facts # {}
                  /\ ~evaluate_precondition(cond, current_facts, b)

(***************************************************************************)
(* The search bounds, restated on the grounded state graph                 *)
(***************************************************************************)
\* the states at distance <= k from the initial state (reached) and the
\* ones at distance exactly k (frontier), stopping when no state is new
RECURSIVE Layers(_, _, _, _)
Layers(p, reached, frontier, k) ==
    IF k = 0 \/ frontier = {} THEN [reached |-> reached, frontier |-> frontier]
    ELSE LET next == UNION {GroundSuccessors(p, s) : s \in frontier} \ reached
         IN  Layers(p, reached \cup next, next, k - 1)

\* some state at distance max_depth has a successor farther away: the
\* depth bound keeps the search from going on
DepthPruned(p) ==
    LET within == Layers(p, {p.initial_state}, {p.initial_state}, max_depth)
    IN  UNION {GroundSuccessors(p, s) : s \in within.frontier} \ within.reached # {}

\* the search has returned without having dequeued a goal state
EndedWithoutGoal ==
    bfs_pc = "done" /\ reach_result.message # "Goal reachable in steps"

\* C15: whenever the search ends without the goal after one of its bounds
\* (max_depth or max_states) cut it short, it returns reachable = true with
\* the inconclusive message and validate adds no error.
C15_BoundCutIsInconclusive ==
    ( /\ EndedWithoutGoal
      /\ \/ Cardinality(visited) > max_states
         \/ DepthPruned(parser(prob)) )
    => /\ reach_result.reachable
       /\ reach_result.message = "inconclusive - assuming valid"
       /\ errors = << >>

\* more than max_states states lie within max_depth steps of the initial
\* state and none of them is a goal state
LargeWithoutGoal(p) ==
    LET within == Layers(p, {p.initial_state}, {p.initial_state}, max_depth).reached
    IN  /\ Cardinality(within) > max_states
        /\ \A s \in within : ~Holds(p.goal, EmptyBinding, s)

\* C16: when len(visited) exceeds max_states the queue is not empty and
\* the search returns reachable = true with the inconclusive message; so
\* for a problem with more than max_states states within max_depth and no
\* goal state among them the search never returns reachable = false.
C16_StateBoundIsOptimistic ==
    /\ (bfs_pc = "loop" /\ Cardinality(visited) > max_states) => queue # << >>
    /\ (bfs_pc = "done" /\ Cardinality(visited) > max_states) =>
          /\ reach_result.reachable
          /\ reach_result.message = "inconclusive - assuming valid"
    /\ (bfs_pc = "done" /\ LargeWithoutGoal(parser(prob))) => reach_result.reachable

\* the search on a goal-free problem with more than max_states states has
\* returned with states still queued
C16_Witness ==
    /\ bfs_pc = "done"
    /\ Cardinality(visited) > max_states
    /\ queue # << >>
    /\ reach_result.reachable
    /\ LargeWithoutGoal(parser(prob))

\* C17: the search terminates on every problem, cyclic state graphs
\* included: it eventually returns goal reachable, inconclusive or no
\* reachable solution.
C17_SearchTerminates ==
    <>( /\ bfs_pc = "done"
        /\ reach_result.message \in {"Goal reachable in steps",
                                     "inconclusive - assuming valid",
                                     "No reachable solution found"} )

\* a search that ran until its queue was empty on a state graph with a
\* cycle
C17_Witness ==
    /\ bfs_pc = "done"
    /\ reach_result.message = "No reachable solution found"
    /\ queue = << >>
    /\ \E s, t \in visited :
          /\ s # t
          /\ t \in GroundSuccessors(parser(prob), s)
          /\ s \in GroundSuccessors(parser(prob), t)

\* C18: when the problem text lacks its :objects, :init or :goal section
\* or its closing parenthesis, construction is aborted with a list of
\* structural errors: no engine exists for such a text, so none runs with
\* an empty initial state or an empty goal obtained from a missing part.
C18_MissingSectionAbortsConstruction ==
    prob.missing # {} =>
        /\ result.op = "construct"
        /\ result.outcome = "error"

\* C19: restoring a GameState from its own to_dict output (whatever the
\* order of the lists) gives back the same facts, step counter, history
\* and visited set, and get_available_actions returns the same list with
\* the same revisits_state flags, with or without a limit.
C19_SerializationRoundTrip ==
    [][result'.op = "from_dict" =>
       \A data \in Serialized :
          FromDict(data) =>
              /\ UNCHANGED GameStateVars
              /\ \A max_actions \in Limits :
                    get_available_actions(parser(prob), current_facts', visited_states',
                                          max_actions)
                  = get_available_actions(parser(prob), current_facts, visited_states,
                                          max_actions)]_vars

\* a GameState with three visited signatures and two history entries has
\* been read back whole
C19_Witness ==
    /\ result.op = "from_dict"
    /\ step_count >= 2
    /\ Len(action_history) = step_count
    /\ Cardinality(visited_states) >= 3
    /\ \E i \in 1..Len(get_available_actions(parser(prob), current_facts,
                                             visited_states, NoLimit)) :
          get_available_actions(parser(prob), current_facts,
                                visited_states, NoLimit)[i].revisits_state

\* C20: restoring from data whose visited_states entry is missing or empty
\* succeeds: the restored state has the stored facts, step counter and
\* history, and its visited set is the one signature of the restored facts.
C20_RestoreWithoutVisited ==
    [][result'.op = "from_dict" =>
       \A data \in SerializedWithoutVisited :
          FromDict(data) =>
              /\ result'.outcome = "ok"
              /\ current_facts' = current_facts
              /\ step_count' = step_count
              /\ action_history' = action_history
              /\ visited_states' = {current_facts}]_vars

\* a played GameState came back with only its current signature visited
C20_Witness ==
    /\ result.op = "from_dict"
    /\ step_count >= 2
    /\ Len(action_history) = step_count
    /\ visited_states = {current_facts}
    /\ Cardinality(Occupied(parser(prob), action_history)) >= 3

\* C21: a request for a session whose engine is not cached and whose stored
\* state has facts is served from the restored GameState: the engine is
\* cached again, get_game_session answers 200 with the GameState read back
\* from the session row, and take_action either executes on that GameState
\* (one more step than stored) or is refused by the engine with the
\* restored GameState kept.
C21_RestoredOnCacheMiss ==
    [][(/\ ~active
        /\ session # NoSession
        /\ "facts" \in DOMAIN session.current_state
        /\ response'.route \in {"take_action", "get_game_session"})
       => /\ active'
          /\ response'.error # "Failed to initialize game engine"
          /\ response'.route = "get_game_session"
                => /\ response'.status = 200
                   /\ CurrentGameState' = from_dict(session.current_state)
          /\ response'.route = "take_action"
                => \/ /\ response'.status = 200
                      /\ step_count' = session.current_state.step_count + 1
                   \/ /\ response'.status = 400
                      /\ CurrentGameState' = from_dict(session.current_state)]_vars

\* C22: when the caller serializes the invocations, every effect is applied
\* to facts in which the action's precondition holds; without that
\* discipline one invocation's effect can come between another's check and
\* its effect, which is then applied to facts in which its precondition is
\* false (the state C22_Witness describes).
C22_SerializedEffectsMeetPrecondition ==
    (discipline = "serialized" /\ applied # NoApplied)
        => Holds(action_def(parser(prob), applied.action).precondition,
                 applied.bindings, applied.before)

\* under no discipline, an effect has been applied to facts in which its
\* precondition was false
C22_Witness ==
    /\ discipline = "free"
    /\ applied # NoApplied
    /\ ~Holds(action_def(parser(prob), applied.action).precondition,
              applied.bindings, applied.before)
    /\ ~evaluate_precondition(action_def(parser(prob), applied.action).precondition,
                              applied.before, applied.bindings)

TestParameterLists(p) ==
    {p.actions[i].parameters : i \in 1..Len(p.actions)}
        \cup { << >>,
               << Param("x", "object") >>,
               << Param("x", "ghost"), Param("y", "object") >> }

RECURSIVE CandidateProduct(_, _, _)
CandidateProduct(p, parameters, k) ==
    IF k = 0 THEN 1
    ELSE Cardinality(Compatible(p, parameters[k])) * CandidateProduct(p, parameters, k - 1)

\* C24: _generate_bindings returns exactly the product of the candidate
\* sets of the parameters (the objects of the parameter's type, every object
\* for the type "object" or for a type no object has): every binding is
\* total over the parameters, none occurs twice, their number is the product
\* of the candidate set sizes, and no parameters give the one empty binding.
C24_BindingsAreTheProduct ==
    LET p == parser(prob)
    IN  \A parameters \in TestParameterLists(p) :
           LET bindings_list == generate_bindings(p, parameters)
               names == {parameters[i].name : i \in 1..Len(parameters)}
           IN  /\ {bindings_list[i] : i \in 1..Len(bindings_list)}
                  = {b \in [names -> ObjectNames(p)] :
                        \A i \in 1..Len(parameters) :
                            b[parameters[i].name] \in Compatible(p, parameters[i])}
               /\ \A i, j \in 1..Len(bindings_list) :
                     bindings_list[i] = bindings_list[j] => i = j
               /\ \A i \in 1..Len(bindings_list) : DOMAIN bindings_list[i] = names
               /\ Len(bindings_list) = CandidateProduct(p, parameters, Len(parameters))
               /\ parameters = << >> => bindings_list = << EmptyBinding >>

\* C25: for every schema and every binding a caller can send, both
\* _simulate_action_effect and the two loops of apply_action turn the facts
\* S into (S + grounded adds) - grounded deletes: a fact grounded from both
\* lists is absent from the outcome, and deleting facts that are not there
\* changes nothing.
C25_AddsThenDeletes ==
    LET p == parser(prob)
    IN  \A name \in ActionNames(p) : \A b \in CallerBindings(p, name) :
           LET def   == action_def(p, name)
               adds  == Grounded(def.effect.add, b)
               dels  == Grounded(def.effect.delete, b)
               after == simulate_action_effect(def, b, current_facts)
           IN  /\ after = (current_facts \cup adds) \ dels
               /\ apply_action_facts(current_facts, def, b) = after
               /\ \A f \in adds \cap dels : f \notin after
               /\ dels \cap (current_facts \cup adds) = {} => after = current_facts \cup adds

\* burn(a) was executed on facts holding "on a", which it both adds and
\* deletes, and is gone; and some call deletes a fact the facts do not hold
C25_Witness ==
    LET p == parser(prob)
    IN  /\ SucceededExecute(result)
        /\ LET def == action_def(p, result.action)
           IN  /\ Grounded(def.effect.add, result.bindings)
                     \cap Grounded(def.effect.delete, result.bindings) # {}
               /\ Grounded(def.effect.add, result.bindings) \ current_facts # {}
        /\ \E name \in ActionNames(p) : \E b \in CallerBindings(p, name) :
              LET dels == Grounded(action_def(p, name).effect.delete, b)
              IN  /\ dels # {}
                  /\ dels \cap current_facts = {}
                  /\ DOMAIN b = ParamNames(action_def(p, name))

\* C26: on every state the search has seen, GameState.is_goal_reached, the
\* goal test of the search and evaluate_precondition with the goal and no
\* binding agree, and are true exactly when every positive goal literal is
\* in the state and no negative one is.
C26_OneGoalTest ==
    LET goal == parser(prob).goal
    IN  \A s \in visited \cup {current_facts} :
           /\ is_goal_reached(goal, s) <=> goal_ok(goal, s)
           /\ goal_ok(goal, s) <=> evaluate_precondition(goal, s, EmptyBinding)
           /\ goal_ok(goal, s) <=>
                 /\ \A i \in 1..Len(goal.positive) : goal.positive[i] \in s
                 /\ \A i \in 1..Len(goal.negative) : goal.negative[i] \notin s

\* the search returned at a goal state of a goal with negative literals,
\* after a state that has the positive literals and fails a negative one
C26_Witness ==
    LET goal == parser(prob).goal
    IN  /\ bfs_pc = "done"
        /\ reach_result.reachable
        /\ reach_result.depth >= 1
        /\ goal.negative # << >>
        /\ \E s \in visited : is_goal_reached(goal, s)
        /\ \E s \in visited :
              /\ \A i \in 1..Len(goal.positive) : goal.positive[i] \in s
              /\ \E i \in 1..Len(goal.negative) : goal.negative[i] \in s

\* the states of the queue entries from position lo on
QueuedStates(q, lo) == {q[i].state : i \in lo..Len(q)}

\* C27: in the search, the queue holds every state at most once and only
\* visited states, and visited never shrinks; a pass of the loop that does
\* not return removes the head of the queue and appends only states that
\* were not visited before (so no state is enqueued or expanded twice),
\* each a successor of the head, at the head's depth plus one, with the
\* head's depth below max_depth; a head at depth max_depth or more is
\* removed and nothing is appended.
C27_VisitedPreventsReexpansion ==
    [][bfs_pc = "loop" =>
          /\ QueuedStates(queue, 1) \subseteq visited
          /\ QueuedStates(queue', 1) \subseteq visited'
          /\ Cardinality(QueuedStates(queue', 1)) = Len(queue')
          /\ visited \subseteq visited'
          /\ bfs_pc' = "loop" =>
                LET current == Head(queue)
                    old     == Len(queue) - 1
                    new     == QueuedStates(queue', old + 1)
                IN  /\ SubSeq(queue', 1, old) = Tail(queue)
                    /\ new \cap visited = {}
                    /\ visited' = visited \cup new
                    /\ new \subseteq GroundSuccessors(parser(prob), current.state)
                    /\ \A i \in (old + 1)..Len(queue') :
                          /\ queue'[i].depth = current.depth + 1
                          /\ current.depth < max_depth
                    /\ current.depth >= max_depth => queue' = Tail(queue)]_vars

\* the head of the queue has a successor that was expanded earlier and is
\* no longer queued, and another that is still to be enqueued
C27_Witness ==
    /\ bfs_pc = "loop"
    /\ queue # << >>
    /\ ~goal_ok(parser(prob).goal, Head(queue).state)
    /\ Head(queue).depth >= 1
    /\ \E s \in GroundSuccessors(parser(prob), Head(queue).state) :
          s \in visited /\ s \notin QueuedStates(queue, 1)
    /\ \E s \in GroundSuccessors(parser(prob), Head(queue).state) : s \notin visited

\* a literal with every token that is, as a whole, a variable of the
\* binding replaced by the object bound to it
WholeTokenGround(literal, bindings) ==
    [i \in 1..Len(literal) |->
        IF \E v \in DOMAIN bindings : literal[i] = "?" \o v
        THEN bindings[CHOOSE v \in DOMAIN bindings : literal[i] = "?" \o v]
        ELSE literal[i]]

\* the literals of a schema's precondition and effect
LiteralsOf(def) ==
    LET all == def.precondition.positive \o def.precondition.negative
                   \o def.effect.add \o def.effect.delete
    IN  {all[i] : i \in 1..Len(all)}

\* C28: _ground_predicate replaces whole variable tokens only: for every
\* literal of every schema and every binding a caller can send, a token is
\* replaced by the bound object exactly when the whole token is a variable
\* of the binding, and is left as it is otherwise.
C28_WholeTokenGrounding ==
    LET p == parser(prob)
    IN  \A name \in ActionNames(p) : \A b \in CallerBindings(p, name) :
           \A literal \in LiteralsOf(action_def(p, name)) :
              ground_predicate(literal, b) = WholeTokenGround(literal, b)

\* the literals of a list
ListedIn(xs) == {xs[i] : i \in 1..Len(xs)}

\* every group of a text is in exactly one of the two lists: a negation in
\* `minus`, any other group in `plus`, and the lists hold nothing else
NoLiteralLost(groups, plus, minus) ==
    /\ \A i \in 1..Len(groups) :
          IF groups[i].negated
          THEN groups[i].literal \in ListedIn(minus) /\ groups[i].literal \notin ListedIn(plus)
          ELSE groups[i].literal \in ListedIn(plus) /\ groups[i].literal \notin ListedIn(minus)
    /\ Len(plus) + Len(minus) = Len(groups)

\* C29: condition and effect parsing loses no literal: for every action
\* block of the loaded domain, each depth-one group of the precondition text
\* is in exactly one of the lists positive and negative, and each group of
\* the effect text in exactly one of add and delete: a negation in the
\* negative/delete list, every other group (one whose predicate name begins
\* with the letters of the keyword not included) in the positive/add list.
C29_ParsingLosesNoLiteral ==
    LET texts == ActionTexts(prob.family)
        p == parser(prob)
    IN  \A i \in 1..Len(texts) :
           /\ NoLiteralLost(texts[i].precondition,
                            p.actions[i].precondition.positive,
                            p.actions[i].precondition.negative)
           /\ NoLiteralLost(texts[i].effect,
                            p.actions[i].effect.add, p.actions[i].effect.delete)

\* C30: in every GameState reached by constructing the engine and applying
\* engine operations, the current facts are a member of visited_states, the
\* initial facts of the problem are a member of visited_states, and no
\* operation removes a member of visited_states.
C30_VisitedHoldsCurrentAndInitial ==
    /\ [](/\ current_facts \in visited_states
          /\ parser(prob).initial_state \in visited_states)
    /\ [][visited_states \subseteq visited_states']_vars

\* two actions have been applied, the facts are not the initial ones and a
\* third signature has been recorded
C30_Witness ==
    /\ result.op = "execute_action"
    /\ result.outcome = "ok"
    /\ step_count >= 2
    /\ current_facts # parser(prob).initial_state
    /\ Cardinality(visited_states) >= 3

\* C31: in every GameState reached by constructing the engine and applying
\* engine operations, failing ones included, step_count is the length of
\* action_history, the k-th entry of action_history carries the step number
\* k, and step_count counts the execute_action calls that succeeded: it is 0
\* after construction, a successful execute_action raises it by one and no
\* other operation changes it.
C31_StepCountIsHistoryLength ==
    /\ step_count = 0
    /\ [](/\ step_count = Len(action_history)
          /\ \A k \in 1..Len(action_history) : action_history[k].step = k)
    /\ [][IF SucceededExecute(result')
          THEN step_count' = step_count + 1
          ELSE step_count' = step_count]_vars

\* two actions have been applied and the last call was refused
C31_Witness ==
    /\ FailedExecute(result)
    /\ step_count = 2
    /\ Len(action_history) = 2
    /\ action_history[2].step = 2

\* the variable tokens of the schemas of p
VariableTokens(p) ==
    UNION { {"?" \o n : n \in ParamNames(p.actions[i])} : i \in 1..Len(p.actions) }
        \cup HyphenTokens

\* no fact of s holds a variable token
FullyGrounded(p, s) ==
    \A fact \in s : \A j \in 1..Len(fact) : fact[j] \notin VariableTokens(p)

\* C32: the live engine never leaves the state graph the reachability check
\* searches: every execute_action that succeeds executes an action and
\* binding that get_applicable_actions lists for the facts it starts from,
\* and the current facts are fully grounded in every reachable state,
\* although execute_action takes its binding from the caller.
C32_LivePlayStaysInStateGraph ==
    /\ []FullyGrounded(parser(prob), current_facts)
    /\ [][SucceededExecute(result') =>
             Call(result'.action, result'.bindings)
                 \in CallsOf(get_applicable_actions(parser(prob), current_facts))]_vars

\* the operations that return a goal_reached flag
ReportsGoal(r) ==
    /\ r.outcome = "ok"
    /\ r.op \in {"initialize_game", "execute_action", "get_current_state"}

\* C33: the goal_reached flag returned by initialize_game, by a successful
\* execute_action and by get_current_state is is_goal_reached of the facts
\* at the time of the return; in particular initialize_game reports the
\* goal as reached when the initial facts satisfy it or the goal is empty.
C33_GoalFlagIsGoalTest ==
    [][ReportsGoal(result') =>
          result'.goal_reached = is_goal_reached(parser(prob).goal, current_facts')]_vars

\* the facts one successful execute_action can lead to from s, for the
\* bindings a caller can send
EngineSuccessors(p, s) ==
    UNION { { apply_action_facts(s, action_def(p, name), b) :
                b \in {c \in CallerBindings(p, name) :
                          evaluate_precondition(action_def(p, name).precondition, s, c)} } :
            name \in ActionNames(p) }

\* the least number of successful execute_action calls after which
\* is_goal_reached holds (-1 when there is none)
RECURSIVE EngineDistanceFrom(_, _, _, _)
EngineDistanceFrom(p, reached, frontier, k) ==
    IF \E s \in frontier : is_goal_reached(p.goal, s)
    THEN k
    ELSE LET next == UNION {EngineSuccessors(p, s) : s \in frontier} \ reached
         IN  IF next = {} THEN 0 - 1
             ELSE EngineDistanceFrom(p, reached \cup next, next, k + 1)

EngineDistance(p) == EngineDistanceFrom(p, {p.initial_state}, {p.initial_state}, 0)

\* C34: when the reachability check returns "Goal reachable in d steps", d
\* is the length of a shortest sequence of applicable ground actions from the
\* initial state to a goal state, and the engine reaches goal_reached = true
\* in d successful execute_action calls and in no fewer.
C34_ReportedDepthIsShortest ==
    (bfs_pc = "done" /\ reach_result.message = "Goal reachable in steps") =>
        /\ reach_result.depth = GoalDistance(parser(prob))
        /\ reach_result.depth = EngineDistance(parser(prob))

\* C35: the reachability check returns reachable = false only when the
\* queue has emptied: at that return no queued state is left unexplored, and
\* no state satisfying the goal can be reached from the initial state by
\* max_depth or fewer applicable ground actions.
C35_FalseOnlyWhenQueueEmpty ==
    (bfs_pc = "done" /\ ~reach_result.reachable) =>
        /\ queue = << >>
        /\ reach_result.message = "No reachable solution found"
        /\ GoalDistance(parser(prob)) \notin 0..max_depth

\* a search that explored several states and ended without the goal
C35_Witness ==
    /\ bfs_pc = "done"
    /\ ~reach_result.reachable
    /\ queue = << >>
    /\ Cardinality(visited) >= 3
    /\ GoalDistance(parser(prob)) = 0 - 1

\* the last request started a game or created a game session
GameStarted(r) ==
    \/ r.route = "start_game" /\ r.status = 200
    \/ r.route = "create_game_session" /\ r.status = 201

\* C36: a story is playable only with certified text: whenever a game is
\* started or a game session is created, the texts the engine is built from,
\* which are the story's current domain and problem texts, are texts for
\* which validate has returned valid; texts changed after a validation are
\* not played until they are validated again.
C36_PlayableOnlyWhenCertified ==
    [][GameStarted(response') => (prob' = story.pddl /\ story.pddl \in certified)]_vars

\* a GameState as far as the listing depends on it
Play(facts, seen) == [facts |-> facts, seen |-> seen]

\* the GameStates one execute_action leads to from g when the player picks
\* an action of get_available_actions(limit)
ListedSuccessors(p, g, limit) ==
    LET listed == get_available_actions(p, g.facts, g.seen, limit)
    IN  { LET facts == apply_action_facts(g.facts, action_def(p, listed[i].action),
                                          listed[i].bindings)
          IN  Play(facts, apply_action_visited(g.seen, facts)) :
          i \in 1..Len(listed) }

\* some sequence of listed actions leads from a GameState of `frontier` to
\* one in which the goal holds
RECURSIVE ListedPlayWins(_, _, _, _)
ListedPlayWins(p, limit, reached, frontier) ==
    IF \E g \in frontier : is_goal_reached(p.goal, g.facts)
    THEN TRUE
    ELSE LET next == UNION {ListedSuccessors(p, g, limit) : g \in frontier} \ reached
         IN  IF next = {} THEN FALSE
             ELSE ListedPlayWins(p, limit, reached \cup next, next)

\* the limits of limited play: the small ones and the story default
PlayLimits == (1..MaxLimit) \cup {branching_factor_max}

\* C37: certified solvability carries over to limited play: when the
\* reachability check has found the goal reachable, then for every limit >= 1
\* some sequence of execute_action calls from the initial state, each
\* executing an action that get_available_actions(limit) returned for the
\* state at that moment, ends with the goal reached.
C37_LimitedPlayCanWin ==
    (bfs_pc = "done" /\ reach_result.message = "Goal reachable in steps") =>
        \A limit \in PlayLimits :
            LET p == parser(prob)
                start == Play(p.initial_state, {p.initial_state})
            IN  ListedPlayWins(p, limit, {start}, {start})

\* C38: preview and execution agree: the facts after a successful
\* execute_action are the facts _simulate_action_effect computes for the same
\* action and binding on the facts before it, so an action listed for those
\* facts with revisits_state = false leads to facts that were not in
\* visited_states before the execution, and one listed with revisits_state =
\* true leads to facts that were.
C38_PreviewAgreesWithExecution ==
    [][SucceededExecute(result') =>
          LET p    == parser(prob)
              def  == action_def(p, result'.action)
              b    == result'.bindings
              list == get_available_actions(p, current_facts, visited_states, NoLimit)
          IN  /\ current_facts' = simulate_action_effect(def, b, current_facts)
              /\ \A i \in 1..Len(list) :
                    SameCall(list[i], Call(result'.action, b)) =>
                        (list[i].revisits_state <=> current_facts' \in visited_states)]_vars

\* an executed action has led back to the initial facts, which a listing
\* for the facts before it annotates as revisiting
C38_Witness ==
    /\ SucceededExecute(result)
    /\ step_count = 2
    /\ current_facts = parser(prob).initial_state
    /\ Cardinality(visited_states) = 2
    /\ \E i \in 1..Len(result.available_actions) :
          result.available_actions[i].revisits_state

\* C39: the dead_end flag is exact: a successful execute_action reports
\* dead_end only when the goal does not hold in the new facts and
\* get_applicable_actions of the new facts is empty, whatever max_actions
\* was passed; and a result with goal_reached = true carries no dead_end and
\* an empty list of available actions.
C39_DeadEndIsExact ==
    SucceededExecute(result) =>
        /\ result.dead_end =>
              /\ ~is_goal_reached(parser(prob).goal, current_facts)
              /\ get_applicable_actions(parser(prob), current_facts) = << >>
        /\ result.goal_reached =>
              /\ ~result.dead_end
              /\ result.available_actions = << >>

====
